---- MODULE Spec2Model ----
(***************************************************************************)
(* Authentication / session core of cvs-central-cluster-server:            *)
(* the User collection (models/secondary/User.ts), UserService             *)
(* (services/userService.ts, services/projectService.ts), UserController   *)
(* (controllers/userController.ts), the Passport Google strategy           *)
(* (config/passport.ts) and the auth / adminOnly middleware                *)
(* (middleware/authMiddleware.ts).                                         *)
(***************************************************************************)
EXTENDS Integers, FiniteSets, Sequences, TLC

VARIABLES
  users,      \* the User collection: _id -> document
  nextId,     \* next ObjectId the store hands out (ids are never reused)
  nextReset,  \* next value crypto.randomBytes yields for a reset token
  now,        \* Date.now(), in milliseconds
  ticks,      \* how often the clock has advanced
  jwtSecret,  \* process.env.JWT_SECRET ("" when unset)
  issued,     \* session tokens the clients hold
  resp,       \* the response of the request handled last
  inflight,   \* requests suspended at an await (interleaved runs only)
  testimonials, \* the Testimonial collection: _id -> document
  nextTid,    \* next ObjectId of a testimonial
  boot        \* initialize(): its promises, its timer, how it ended

vars == <<users, nextId, nextReset, now, ticks, jwtSecret, issued, resp,
          inflight, testimonials, nextTid, boot>>

----------------------------------------------------------------------------
(* Bounds of the model *)

MaxUsers == 3
MaxResets == 2
MaxTicks == 2
MaxIssued == 1
MaxTestimonials == 2
MaxEvents == 2

(* Program constants *)

ResetTTLms == 3600000
TokenTTLs == 86400

(* Input domains *)

SeedEmail == "root@x.com"
Emails == {SeedEmail, "a@x.com"}
Names == {"Ann", "Bob"}
DefaultName == "Ann"
Passwords == {"pw1", "pw2"}
OAuthProviders == {"google", "github"}
Procs == {"r1", "r2"}
EnvSecrets == {"", "s3cret"}
TickShort == ResetTTLms \div 2
TickLong == TokenTTLs * 1000

Ids == 1..MaxUsers
ResetTokens == 1..MaxResets

----------------------------------------------------------------------------
(* Absent ("undefined") values of optional fields *)

NoId == 0
NoPassword == <<>>
NoToken == 0
NoDate == -1
NoProviderId == <<>>

(* bcrypt.hash / bcrypt.compare *)

Hash(p) == <<"$2a$10$", p>>

Compare(p, h) == Len(h) = 2 /\ h[2] = p

(* crypto.randomBytes(32).toString("hex"): a value never handed out before.
   The verification token of the n-th document created is n; reset tokens are
   numbered by nextReset. *)
FreshVerificationToken(nid) == nid

FreshResetToken(nr) == nr

(* The profile an identity provider returns for the account with this email *)
Profile(provider, email, name) ==
  [id |-> <<provider, email>>, email |-> email, name |-> name]

----------------------------------------------------------------------------
(* Error messages thrown by the services *)

OK == <<"ok">>
EmailInUse == <<"Email already in use">>
InvalidCredentials == <<"Invalid credentials">>
WrongProvider(p) == <<"Please login using your", p, "account">>
NotVerified == <<"Please verify your email before logging in">>
InvalidVerificationToken == <<"Invalid verification token">>
UserNotFound == <<"User not found">>
InvalidOrExpired == <<"Invalid or expired reset token">>
ProviderConflict(p) ==
  <<"You already have an account with", p, "Please sign in with that provider.">>
DuplicateKey == <<"E11000 duplicate key error">>
DocumentNotFound == <<"No document found for query">>

----------------------------------------------------------------------------
(* The User collection *)

(* A body field that is undefined, and the null it is stored as *)
Unset == "unset"
Null == "null"

DefaultPicture == "blank-profile-picture.png"

UserDoc(email, name, provider, providerId, password, isVerified, vtoken) ==
  [email |-> email, name |-> name, picture |-> DefaultPicture,
   provider |-> provider,
   providerId |-> providerId, password |-> password,
   role |-> "user", isAdmin |-> FALSE, isVerified |-> isVerified,
   verificationToken |-> vtoken,
   resetPasswordToken |-> NoToken, resetPasswordExpires |-> NoDate]

SeedAdmin ==
  [UserDoc(SeedEmail, "Ann", "local", NoProviderId, Hash("pw1"), TRUE, NoToken)
     EXCEPT !.role = "admin", !.isAdmin = TRUE]

(* Model.findOne(filter): the first of the matching documents, or null *)
FindOne(matching) ==
  IF matching = {} THEN NoId
  ELSE CHOOSE i \in matching : \A j \in matching : i <= j

FindByEmail(us, e) == FindOne({i \in DOMAIN us : us[i].email = e})

(* Model.findById(id) *)
FindById(us, id) == IF id \in DOMAIN us THEN id ELSE NoId

(* A collection without the unique index *)
UniqueEmailViolated_Off(us, id, e) == FALSE

(* The unique index on email (UserSchema.email unique: true) *)
UniqueEmailViolated(us, id, e) ==
  \E i \in DOMAIN us : i # id /\ us[i].email = e

(* save() of a new document *)
Insert(us, id, doc) ==
  IF UniqueEmailViolated(us, id, doc.email)
    THEN [ok |-> FALSE, users |-> us]
    ELSE [ok |-> TRUE,
          users |-> [i \in DOMAIN us \cup {id} |-> IF i = id THEN doc ELSE us[i]]]

(* findByIdAndDelete(id) *)
Remove(us, id) == [i \in DOMAIN us \ {id} |-> us[i]]

----------------------------------------------------------------------------
(* Session tokens (jsonwebtoken) *)

NoClaims == [userId |-> NoId, iat |-> 0, exp |-> 0]

(* The HMAC of the claims under a secret *)
Hmac(claims, secret) == [over |-> claims, key |-> secret]

NoJwt == [wellFormed |-> FALSE, claims |-> NoClaims, sig |-> Hmac(NoClaims, "")]

Seconds(ms) == ms \div 1000

(* jwt.sign(payload, secret, { expiresIn: "1d" }) *)
JwtSign(payload, secret, t) ==
  LET claims == payload @@ [iat |-> Seconds(t), exp |-> Seconds(t) + TokenTTLs]
  IN  [wellFormed |-> TRUE, claims |-> claims, sig |-> Hmac(claims, secret)]

(* jwt.verify with ignoreExpiration *)
JwtVerify_NoExpiry(tok, secret, t) ==
  IF ~tok.wellFormed THEN <<"jwt malformed">>
  ELSE IF tok.sig # Hmac(tok.claims, secret) THEN <<"invalid signature">>
  ELSE OK

(* jwt.verify(token, secret): the error it throws, or OK *)
JwtVerify(tok, secret, t) ==
  IF ~tok.wellFormed THEN <<"jwt malformed">>
  ELSE IF tok.sig # Hmac(tok.claims, secret) THEN <<"invalid signature">>
  ELSE IF Seconds(t) >= tok.claims.exp THEN <<"jwt expired">>
  ELSE OK

(* process.env.JWT_SECRET || "your-default-secret" *)
ServiceSecret(env) == IF env # "" THEN env ELSE "your-default-secret"

(* process.env.JWT_SECRET || "your-secret-key" *)
CallbackSecret(env) == IF env # "" THEN env ELSE "your-secret-key"

TokenPayload(id, u) ==
  [userId |-> id, email |-> u.email, role |-> u.role, isAdmin |-> u.isAdmin]

----------------------------------------------------------------------------
(* UserService *)

(* What a service call yields: the error thrown (or OK), the collection and
   counters it leaves, the document it resolved and the token it returns. *)
Result(out, us, nid, nr, uid, token) ==
  [out |-> out, users |-> us, nextId |-> nid, nextReset |-> nr,
   uid |-> uid, token |-> token]

(* register storing the new record without a password hash *)
registerSave_NoHash(us, nid, nr, found, email, name, password) ==
  IF found # NoId
    THEN Result(EmailInUse, us, nid, nr, NoId, NoJwt)
    ELSE Result(OK,
           [i \in DOMAIN us \cup {nid} |->
              IF i = nid
                THEN UserDoc(email, name, "local", NoProviderId, NoPassword,
                             FALSE, FreshVerificationToken(nid))
                ELSE us[i]],
           nid + 1, nr, nid, NoJwt)

(* register, after its findOne returned `found` *)
registerSave(us, nid, nr, found, email, name, password) ==
  IF found # NoId
    THEN Result(EmailInUse, us, nid, nr, NoId, NoJwt)
    ELSE LET doc == UserDoc(email, name, "local", NoProviderId, Hash(password),
                            FALSE, FreshVerificationToken(nid))
             saved == Insert(us, nid, doc)
         IN  IF saved.ok
               THEN Result(OK, saved.users, nid + 1, nr, nid, NoJwt)
               ELSE Result(DuplicateKey, us, nid, nr, NoId, NoJwt)

register(us, nid, nr, email, name, password) ==
  registerSave(us, nid, nr, FindByEmail(us, email), email, name, password)

(* login without its isVerified check *)
login_Unchecked(us, nid, nr, env, t, email, password) ==
  LET id == FindByEmail(us, email) IN
  IF id = NoId THEN Result(InvalidCredentials, us, nid, nr, NoId, NoJwt)
  ELSE IF us[id].provider # "local"
    THEN Result(WrongProvider(us[id].provider), us, nid, nr, NoId, NoJwt)
  ELSE IF us[id].password = NoPassword
    THEN Result(InvalidCredentials, us, nid, nr, NoId, NoJwt)
  ELSE IF ~Compare(password, us[id].password)
    THEN Result(InvalidCredentials, us, nid, nr, NoId, NoJwt)
  ELSE Result(OK, us, nid, nr, id,
              JwtSign(TokenPayload(id, us[id]), ServiceSecret(env), t))

(* login testing isVerified before the password *)
login_VerifiedFirst(us, nid, nr, env, t, email, password) ==
  LET id == FindByEmail(us, email) IN
  IF id = NoId THEN Result(InvalidCredentials, us, nid, nr, NoId, NoJwt)
  ELSE IF us[id].provider # "local"
    THEN Result(WrongProvider(us[id].provider), us, nid, nr, NoId, NoJwt)
  ELSE IF ~us[id].isVerified
    THEN Result(NotVerified, us, nid, nr, NoId, NoJwt)
  ELSE IF us[id].password = NoPassword \/ ~Compare(password, us[id].password)
    THEN Result(InvalidCredentials, us, nid, nr, NoId, NoJwt)
  ELSE Result(OK, us, nid, nr, id,
              JwtSign(TokenPayload(id, us[id]), ServiceSecret(env), t))

login(us, nid, nr, env, t, email, password) ==
  LET id == FindByEmail(us, email) IN
  IF id = NoId THEN Result(InvalidCredentials, us, nid, nr, NoId, NoJwt)
  ELSE IF us[id].provider # "local"
    THEN Result(WrongProvider(us[id].provider), us, nid, nr, NoId, NoJwt)
  ELSE IF us[id].password = NoPassword
    THEN Result(InvalidCredentials, us, nid, nr, NoId, NoJwt)
  ELSE IF ~Compare(password, us[id].password)
    THEN Result(InvalidCredentials, us, nid, nr, NoId, NoJwt)
  ELSE IF ~us[id].isVerified
    THEN Result(NotVerified, us, nid, nr, NoId, NoJwt)
  ELSE Result(OK, us, nid, nr, id,
              JwtSign(TokenPayload(id, us[id]), ServiceSecret(env), t))

verifyEmail(us, nid, nr, token) ==
  LET id == FindOne({i \in DOMAIN us : us[i].verificationToken = token})
  IN  IF id = NoId
        THEN Result(InvalidVerificationToken, us, nid, nr, NoId, NoJwt)
        ELSE Result(OK,
                    [us EXCEPT ![id].isVerified = TRUE,
                               ![id].verificationToken = NoToken],
                    nid, nr, id, NoJwt)

(* requestPasswordReset leaving a pending token in place, its expiry renewed *)
requestPasswordReset_KeepPending(us, nid, nr, t, email) ==
  LET id == FindByEmail(us, email) IN
  IF id = NoId THEN Result(UserNotFound, us, nid, nr, NoId, NoJwt)
  ELSE IF us[id].resetPasswordToken # NoToken
    THEN Result(OK, [us EXCEPT ![id].resetPasswordExpires = t + ResetTTLms],
                nid, nr, id, NoJwt)
  ELSE Result(OK,
              [us EXCEPT ![id].resetPasswordToken = FreshResetToken(nr),
                         ![id].resetPasswordExpires = t + ResetTTLms],
              nid, nr + 1, id, NoJwt)

requestPasswordReset(us, nid, nr, t, email) ==
  LET id == FindByEmail(us, email) IN
  IF id = NoId THEN Result(UserNotFound, us, nid, nr, NoId, NoJwt)
  ELSE Result(OK,
              [us EXCEPT ![id].resetPasswordToken = FreshResetToken(nr),
                         ![id].resetPasswordExpires = t + ResetTTLms],
              nid, nr + 1, id, NoJwt)

(* resetPassword leaving the stored password as it was *)
resetPassword_KeepPassword(us, nid, nr, t, token, newPassword) ==
  LET id == FindOne({i \in DOMAIN us :
                       /\ us[i].resetPasswordToken = token
                       /\ us[i].resetPasswordExpires > t})
  IN  IF id = NoId THEN Result(InvalidOrExpired, us, nid, nr, NoId, NoJwt)
      ELSE Result(OK,
                  [us EXCEPT ![id].resetPasswordToken = NoToken,
                             ![id].resetPasswordExpires = NoDate],
                  nid, nr, id, NoJwt)

(* resetPassword accepting a token at the instant it expires *)
resetPassword_Late(us, nid, nr, t, token, newPassword) ==
  LET id == FindOne({i \in DOMAIN us :
                       /\ us[i].resetPasswordToken = token
                       /\ us[i].resetPasswordExpires >= t})
  IN  IF id = NoId THEN Result(InvalidOrExpired, us, nid, nr, NoId, NoJwt)
      ELSE Result(OK,
                  [us EXCEPT ![id].password = Hash(newPassword),
                             ![id].resetPasswordToken = NoToken,
                             ![id].resetPasswordExpires = NoDate],
                  nid, nr, id, NoJwt)

resetPassword(us, nid, nr, t, token, newPassword) ==
  LET id == FindOne({i \in DOMAIN us :
                       /\ us[i].resetPasswordToken = token
                       /\ us[i].resetPasswordExpires > t})
  IN  IF id = NoId THEN Result(InvalidOrExpired, us, nid, nr, NoId, NoJwt)
      ELSE Result(OK,
                  [us EXCEPT ![id].password = Hash(newPassword),
                             ![id].resetPasswordToken = NoToken,
                             ![id].resetPasswordExpires = NoDate],
                  nid, nr, id, NoJwt)

NameRequired == <<"Validation failed", "name", "is required">>
AllowedUpdates == {"name", "picture"}

(* The keys of an object whose value is undefined; the model hands undefined
   only to paths of type String *)
StringPaths == {"email", "name", "picture", "provider", "role"}
IsUndefined(obj, k) == k \in StringPaths /\ obj[k] = Unset

(* $set of the paths in set, an undefined value stored as null; runValidators
   rejects a name that is null *)
findByIdAndUpdate(us, nid, nr, userId, updates, set) ==
  LET value(k) == IF IsUndefined(updates, k) THEN Null ELSE updates[k] IN
  IF "name" \in set /\ value("name") = Null
    THEN Result(NameRequired, us, nid, nr, NoId, NoJwt)
  ELSE IF FindById(us, userId) = NoId
    THEN Result(UserNotFound, us, nid, nr, NoId, NoJwt)
  ELSE Result(OK,
              [us EXCEPT ![userId] =
                 [f \in DOMAIN @ |-> IF f \in set THEN value(f) ELSE @[f]]],
              nid, nr, userId, NoJwt)

(* updateProfile passing every key of updateData on to $set *)
updateProfile_NoFilter(us, nid, nr, userId, updateData, omitUndefined) ==
  findByIdAndUpdate(us, nid, nr, userId, updateData,
                    {k \in DOMAIN updateData :
                       ~omitUndefined \/ ~IsUndefined(updateData, k)})

(* updateProfile: the allowed keys of updateData go to $set; whether the
   undefined ones among them are dropped or stored as null depends on the
   Mongoose the build resolves (omitUndefined) *)
updateProfile(us, nid, nr, userId, updateData, omitUndefined) ==
  LET updates == [k \in DOMAIN updateData \cap AllowedUpdates |->
                    updateData[k]]
  IN  findByIdAndUpdate(us, nid, nr, userId, updates,
                        {k \in DOMAIN updates :
                           ~omitUndefined \/ ~IsUndefined(updates, k)})

deleteAccount(us, nid, nr, userId) ==
  IF FindById(us, userId) = NoId
    THEN Result(UserNotFound, us, nid, nr, NoId, NoJwt)
    ELSE Result(OK, Remove(us, userId), nid, nr, userId, NoJwt)

changePassword(us, nid, nr, userId, currentPassword, newPassword) ==
  IF FindById(us, userId) = NoId
    THEN Result(UserNotFound, us, nid, nr, NoId, NoJwt)
  ELSE IF us[userId].password = NoPassword
    THEN Result(<<"Invalid operation for this account type">>, us, nid, nr,
                NoId, NoJwt)
  ELSE IF ~Compare(currentPassword, us[userId].password)
    THEN Result(<<"Current password is incorrect">>, us, nid, nr, NoId, NoJwt)
  ELSE Result(OK, [us EXCEPT ![userId].password = Hash(newPassword)],
              nid, nr, userId, NoJwt)

(* setPasswordForOAuthUser without the test for an existing password *)
setPasswordForOAuthUser_Overwrite(us, nid, nr, userId, password) ==
  IF FindById(us, userId) = NoId
    THEN Result(UserNotFound, us, nid, nr, NoId, NoJwt)
  ELSE Result(OK, [us EXCEPT ![userId].password = Hash(password)],
              nid, nr, userId, NoJwt)

setPasswordForOAuthUser(us, nid, nr, userId, password) ==
  IF FindById(us, userId) = NoId
    THEN Result(UserNotFound, us, nid, nr, NoId, NoJwt)
  ELSE IF us[userId].password # NoPassword
    THEN Result(<<"User already has a password">>, us, nid, nr, NoId, NoJwt)
  ELSE Result(OK, [us EXCEPT ![userId].password = Hash(password)],
              nid, nr, userId, NoJwt)

(* Every local account migrated, verified or not *)
Migratable_AnyLocal(doc) == doc.provider = "local"

(* The branch both OAuth resolutions take on an existing document whose
   provider differs: only an unverified local account is migrated *)
Migratable(doc) == doc.provider = "local" /\ ~doc.isVerified

(* The migration, the provider left as it was *)
Migrate_KeepProvider(us, id, provider, profile) ==
  [us EXCEPT ![id].providerId = profile.id,
             ![id].isVerified = TRUE,
             ![id].verificationToken = NoToken]

(* The migration, the verification token left in place *)
Migrate_KeepToken(us, id, provider, profile) ==
  [us EXCEPT ![id].provider = provider,
             ![id].providerId = profile.id,
             ![id].isVerified = TRUE]

Migrate(us, id, provider, profile) ==
  [us EXCEPT ![id].provider = provider,
             ![id].providerId = profile.id,
             ![id].isVerified = TRUE,
             ![id].verificationToken = NoToken]

(* The document a findOne returned, as the request holds it in memory *)
NoDoc == UserDoc("", "", "", NoProviderId, NoPassword, FALSE, NoToken)

Snapshot(us, id) == IF id = NoId THEN NoDoc ELSE us[id]

(* oauthLogin, after its findOne returned the document `doc` with _id
   `found`.  save() of a loaded document writes the modified paths to the
   document with that _id and throws when it is gone. *)
oauthResolve(us, nid, nr, env, t, found, doc, profile, provider) ==
  IF found # NoId
    THEN IF doc.provider # provider
           THEN IF Migratable(doc)
                  THEN IF found \in DOMAIN us
                         THEN Result(OK, Migrate(us, found, provider, profile),
                                     nid, nr, found,
                                     JwtSign(TokenPayload(found, doc),
                                             ServiceSecret(env), t))
                         ELSE Result(DocumentNotFound, us, nid, nr, NoId, NoJwt)
                  ELSE Result(ProviderConflict(doc.provider), us, nid, nr,
                              NoId, NoJwt)
           ELSE Result(OK, us, nid, nr, found,
                       JwtSign(TokenPayload(found, doc), ServiceSecret(env), t))
    ELSE LET new == UserDoc(profile.email, profile.name, provider, profile.id,
                            NoPassword, TRUE, NoToken)
             saved == Insert(us, nid, new)
         IN  IF saved.ok
               THEN Result(OK, saved.users, nid + 1, nr, nid,
                           JwtSign(TokenPayload(nid, new), ServiceSecret(env), t))
               ELSE Result(DuplicateKey, us, nid, nr, NoId, NoJwt)

oauthLogin(us, nid, nr, env, t, profile, provider) ==
  LET found == FindByEmail(us, profile.email)
  IN  oauthResolve(us, nid, nr, env, t, found, Snapshot(us, found), profile,
                   provider)

----------------------------------------------------------------------------
(* config/passport.ts: the verify callback of the Google strategy, after its
   findOne returned `doc`.  It hands the resolved document to done(); it
   issues no token itself. *)
googleResolve(us, nid, nr, found, doc, profile) ==
  IF found # NoId
    THEN IF doc.provider # "google"
           THEN IF Migratable(doc)
                  THEN IF found \in DOMAIN us
                         THEN Result(OK, Migrate(us, found, "google", profile),
                                     nid, nr, found, NoJwt)
                         ELSE Result(DocumentNotFound, us, nid, nr, NoId, NoJwt)
                  ELSE Result(ProviderConflict(doc.provider), us, nid, nr,
                              NoId, NoJwt)
           ELSE Result(OK, us, nid, nr, found, NoJwt)
    ELSE LET new == UserDoc(profile.email, profile.name, "google", profile.id,
                            NoPassword, TRUE, NoToken)
             saved == Insert(us, nid, new)
         IN  IF saved.ok
               THEN Result(OK, saved.users, nid + 1, nr, nid, NoJwt)
               ELSE Result(DuplicateKey, us, nid, nr, NoId, NoJwt)

googleVerify(us, nid, nr, profile) ==
  LET found == FindByEmail(us, profile.email)
  IN  googleResolve(us, nid, nr, found, Snapshot(us, found), profile)

(* handleGoogleCallback: the profile Google returned for the code, resolved
   with the intent of the flow (registration or login) *)
AccountExists(p) ==
  <<"Account already exists with", p, "Please sign in with that provider.">>
PleaseSignInWith(p) == <<"Please sign in with your", p, "account.">>

handleGoogleCallback(us, nid, nr, env, t, profile, isRegistration) ==
  LET found == FindByEmail(us, profile.email) IN
  IF found = NoId
    THEN LET new == UserDoc(profile.email, profile.name, "google", profile.id,
                            NoPassword, TRUE, NoToken)
             saved == Insert(us, nid, new)
         IN  IF saved.ok
               THEN Result(OK, saved.users, nid + 1, nr, nid,
                           JwtSign(TokenPayload(nid, new), ServiceSecret(env), t))
               ELSE Result(DuplicateKey, us, nid, nr, NoId, NoJwt)
  ELSE IF us[found].provider # "google"
    THEN IF isRegistration
           THEN IF Migratable(us[found])
                  THEN Result(OK, Migrate(us, found, "google", profile),
                              nid, nr, found,
                              JwtSign(TokenPayload(found, us[found]),
                                      ServiceSecret(env), t))
                  ELSE Result(AccountExists(us[found].provider), us, nid, nr,
                              NoId, NoJwt)
           ELSE Result(PleaseSignInWith(us[found].provider), us, nid, nr,
                       NoId, NoJwt)
  ELSE Result(OK, us, nid, nr, found,
              JwtSign(TokenPayload(found, us[found]), ServiceSecret(env), t))

(* UserController.googleCallback: signs { userId } for the user Passport
   attached; an error of the strategy never reaches it *)
googleCallback(R, env, t) ==
  IF R.out # OK THEN R
  ELSE [R EXCEPT !.token = JwtSign([userId |-> R.uid], CallbackSecret(env), t)]

----------------------------------------------------------------------------
(* middleware/authMiddleware.ts *)

NoHeader == [scheme |-> "", token |-> NoJwt]
BasicHeader == [scheme |-> "Basic", token |-> NoJwt]
Bearer(tok) == [scheme |-> "Bearer", token |-> tok]

AuthRequired == <<"Authentication required">>
AuthFailed == <<"Authentication failed">>
AdminRequired == <<"Admin access required">>

(* auth trusting the token's claims, without looking the user up *)
auth_NoLookup(us, env, t, header) ==
  IF header.scheme # "Bearer"
    THEN [next |-> FALSE, status |-> 401, body |-> AuthRequired, user |-> NoId]
  ELSE IF JwtVerify(header.token, ServiceSecret(env), t) # OK
    THEN [next |-> FALSE, status |-> 401, body |-> AuthFailed, user |-> NoId]
  ELSE [next |-> TRUE, status |-> 0, body |-> OK,
        user |-> header.token.claims.userId]

(* auth revoking the sessions of records that are no longer verified *)
auth_VerifiedOnly(us, env, t, header) ==
  IF header.scheme # "Bearer"
    THEN [next |-> FALSE, status |-> 401, body |-> AuthRequired, user |-> NoId]
  ELSE IF JwtVerify(header.token, ServiceSecret(env), t) # OK
    THEN [next |-> FALSE, status |-> 401, body |-> AuthFailed, user |-> NoId]
  ELSE IF FindById(us, header.token.claims.userId) = NoId
            \/ ~us[header.token.claims.userId].isVerified
    THEN [next |-> FALSE, status |-> 401, body |-> AuthFailed,
          user |-> header.token.claims.userId]
  ELSE [next |-> TRUE, status |-> 0, body |-> OK,
        user |-> header.token.claims.userId]

(* auth without the return after the 401 for a user that is gone *)
auth_NoReturn(us, env, t, header) ==
  IF header.scheme # "Bearer"
    THEN [next |-> FALSE, status |-> 401, body |-> AuthRequired, user |-> NoId]
  ELSE IF JwtVerify(header.token, ServiceSecret(env), t) # OK
    THEN [next |-> FALSE, status |-> 401, body |-> AuthFailed, user |-> NoId]
  ELSE IF FindById(us, header.token.claims.userId) = NoId
    THEN [next |-> TRUE, status |-> 401, body |-> AuthFailed,
          user |-> header.token.claims.userId]
  ELSE [next |-> TRUE, status |-> 0, body |-> OK,
        user |-> header.token.claims.userId]

(* auth: either next() with req.user attached, or a 401 response *)
auth(us, env, t, header) ==
  IF header.scheme # "Bearer"
    THEN [next |-> FALSE, status |-> 401, body |-> AuthRequired, user |-> NoId]
  ELSE IF JwtVerify(header.token, ServiceSecret(env), t) # OK
    THEN [next |-> FALSE, status |-> 401, body |-> AuthFailed, user |-> NoId]
  ELSE IF FindById(us, header.token.claims.userId) = NoId
    THEN [next |-> FALSE, status |-> 401, body |-> AuthFailed,
          user |-> header.token.claims.userId]
  ELSE [next |-> TRUE, status |-> 0, body |-> OK,
        user |-> header.token.claims.userId]

(* adminOnly going by the role of the record instead of its isAdmin flag *)
adminOnly_ByRole(us, gate) ==
  IF gate.user = NoId \/ us[gate.user].role # "admin"
    THEN [next |-> FALSE, status |-> 403, body |-> AdminRequired, user |-> gate.user]
    ELSE gate

(* adminOnly letting every authenticated caller through *)
adminOnly_Open(us, gate) == gate

(* adminOnly, run after auth let the request through *)
adminOnly(us, gate) ==
  IF gate.user = NoId \/ ~us[gate.user].isAdmin
    THEN [next |-> FALSE, status |-> 403, body |-> AdminRequired, user |-> gate.user]
    ELSE gate

----------------------------------------------------------------------------
(* What clients can put in the Authorization header: a token they were
   issued, such a token altered or re-signed, or no token at all *)

Tampered(tok) ==
  {[tok EXCEPT !.claims.userId = i] : i \in Ids \ {tok.claims.userId}}
    \cup {[tok EXCEPT !.claims.exp = @ + TokenTTLs]}
    \cup {[tok EXCEPT !.sig.key = "forged"]}

Headers ==
  {NoHeader, BasicHeader, Bearer(NoJwt)}
    \cup {Bearer(tok) : tok \in issued}
    \cup {Bearer(x) : x \in UNION {Tampered(tok) : tok \in issued}}

----------------------------------------------------------------------------
(* Responses *)

NoService == <<"-">>

(* payload: the keys of the user objects in the JSON body *)
Response(op, status, body, out, uid, token) ==
  [op |-> op, status |-> status, body |-> body, out |-> out, uid |-> uid,
   token |-> token, payload |-> {}]

NoResponse == Response("", 0, OK, NoService, NoId, NoJwt)

(* A request suspended between its findOne and what follows it *)
Request(op, email, password, provider, found, doc) ==
  [op |-> op, email |-> email, password |-> password, provider |-> provider,
   found |-> found, doc |-> doc]

IdleRequest == Request("", "", "", "", NoId, NoDoc)

(* The client keeps a token it is handed while it has room for one *)
Keep(tok) ==
  IF tok # NoJwt /\ Cardinality(issued) < MaxIssued
    THEN issued \cup {tok} ELSE issued

(* The paths a document may lack, with the value that stands for undefined *)
Undefined ==
  [providerId |-> NoProviderId, password |-> NoPassword,
   verificationToken |-> NoToken, resetPasswordToken |-> NoToken,
   resetPasswordExpires |-> NoDate]

(* user.toObject(): the paths of the document that have a value *)
toObject(doc) ==
  {f \in DOMAIN doc : f \notin DOMAIN Undefined \/ doc[f] # Undefined[f]}

(* delete userResponse.password, and a query with select("-password") *)
WithoutPassword(obj) == obj \ {"password"}

(* The user objects a handler puts in the body of its success response *)
UserPayload(op, R) ==
  IF R.out # OK THEN {}
  ELSE IF op \in {"register", "login", "getCurrentUser", "updateProfile",
                  "adminUpdateUser"}
    THEN WithoutPassword(toObject(R.users[R.uid]))
  ELSE IF op = "getAllUsers"
    THEN UNION {WithoutPassword(toObject(R.users[i])) : i \in DOMAIN R.users}
  ELSE {}

(* A handler's effect: the store the service left, and the response *)
Respond(op, status, body, R) ==
  /\ R.nextId <= MaxUsers + 1
  /\ R.nextReset <= MaxResets + 1
  /\ users' = R.users
  /\ nextId' = R.nextId
  /\ nextReset' = R.nextReset
  /\ issued' = Keep(R.token)
  /\ resp' = [Response(op, status, body, R.out, R.uid, R.token)
                EXCEPT !.payload = UserPayload(op, R)]
  /\ UNCHANGED <<now, ticks, jwtSecret, boot, testimonials, nextTid>>

(* A request handled without another one running in between *)
Reply(op, status, body, R) ==
  /\ Respond(op, status, body, R)
  /\ UNCHANGED inflight

(* A response sent by a middleware: the handler is never run *)
Reject(gate) ==
  /\ resp' = Response(IF gate.status = 401 THEN "auth" ELSE "adminOnly",
                      gate.status, gate.body, NoService, gate.user, NoJwt)
  /\ UNCHANGED <<users, nextId, nextReset, now, ticks, jwtSecret, boot, issued,
                 inflight, testimonials, nextTid>>

----------------------------------------------------------------------------
(* UserController: the status and message of the first response a handler
   sends for the outcome of its service call *)

ServerError(what) == <<"Server error", what>>

registerStatus(out) ==
  IF out = OK THEN 201 ELSE IF out = EmailInUse THEN 400 ELSE 500

registerBody(out) ==
  IF out = OK THEN <<"User registered successfully">>
  ELSE IF out = EmailInUse THEN out ELSE ServerError("during registration")

loginStatus(out) ==
  IF out = OK THEN 200
  ELSE IF out = InvalidCredentials \/ out = NotVerified
            \/ out[1] = "Please login using your" THEN 400
  ELSE 500

loginBody(out) ==
  IF out = OK THEN <<"Login successful">>
  ELSE IF loginStatus(out) = 400 THEN out ELSE ServerError("during login")

verifyEmailStatus(out) ==
  IF out = OK THEN 200 ELSE IF out = InvalidVerificationToken THEN 400 ELSE 500

resetPasswordStatus(out) ==
  IF out = OK THEN 200 ELSE IF out = InvalidOrExpired THEN 400 ELSE 500

ResetRequested ==
  <<"If your email exists in our system, you will receive a password reset link">>

(* req.body without an email *)
NoEmail == ""
EmailRequired == <<"Email is required">>

(* a reset request that tells the caller when the service threw *)
requestPasswordResetStatus_Telling(email, out) ==
  IF email = NoEmail THEN 400 ELSE IF out = OK THEN 200 ELSE 404

(* the 400 for a missing email is sent without return; then the try and the
   catch both answer 200 *)
requestPasswordResetStatus(email, out) ==
  IF email = NoEmail THEN 400 ELSE 200

requestPasswordResetBody(email, out) ==
  IF email = NoEmail THEN EmailRequired ELSE ResetRequested

----------------------------------------------------------------------------
(* Public routes *)

Register(email, name, password) ==
  LET R == register(users, nextId, nextReset, email, name, password)
  IN  Reply("register", registerStatus(R.out), registerBody(R.out), R)

Login(email, password) ==
  LET R == login(users, nextId, nextReset, jwtSecret, now, email, password)
  IN  Reply("login", loginStatus(R.out), loginBody(R.out), R)

VerifyEmail(token) ==
  LET R == verifyEmail(users, nextId, nextReset, token)
  IN  Reply("verifyEmail", verifyEmailStatus(R.out),
            IF R.out = OK THEN <<"Email verified successfully">> ELSE R.out,
            R)

RequestPasswordReset(email) ==
  LET R == requestPasswordReset(users, nextId, nextReset, now, email)
  IN  Reply("requestPasswordReset", requestPasswordResetStatus(email, R.out),
            requestPasswordResetBody(email, R.out), R)

ResetPassword(token, password) ==
  LET R == resetPassword(users, nextId, nextReset, now, token, password)
  IN  Reply("resetPassword", resetPasswordStatus(R.out),
            IF R.out = OK THEN <<"Password reset successful">> ELSE R.out,
            R)

OAuthLogin(provider, email, name) ==
  LET R == oauthLogin(users, nextId, nextReset, jwtSecret, now,
                      Profile(provider, email, name), provider)
  IN  Reply("oauthLogin", IF R.out = OK THEN 200 ELSE 500, R.out, R)

(* GET /google/callback: passport.authenticate("google") runs the strategy's
   verify callback, then UserController.googleCallback redirects with a token *)
GoogleCallback(email, name) ==
  LET R == googleCallback(
             googleVerify(users, nextId, nextReset,
                          Profile("google", email, name)),
             jwtSecret, now)
  IN  Reply("googleCallback", IF R.out = OK THEN 302 ELSE 500, R.out, R)

HandleGoogleCallback(email, name, isRegistration) ==
  LET R == handleGoogleCallback(users, nextId, nextReset, jwtSecret, now,
                                Profile("google", email, name), isRegistration)
  IN  Reply("handleGoogleCallback", IF R.out = OK THEN 200 ELSE 500, R.out, R)

----------------------------------------------------------------------------
(* Routes behind auth *)

GetCurrentUser(h) ==
  LET gate == auth(users, jwtSecret, now, h) IN
  IF ~gate.next THEN Reject(gate)
  ELSE Reply("getCurrentUser", 200, OK,
             Result(OK, users, nextId, nextReset, gate.user, NoJwt))

UpdateProfile(h, name, picture) ==
  LET gate == auth(users, jwtSecret, now, h) IN
  IF ~gate.next THEN Reject(gate)
  ELSE \E omitUndefined \in BOOLEAN :
         LET R == updateProfile(users, nextId, nextReset, gate.user,
                                [name |-> name, picture |-> picture],
                                omitUndefined)
         IN  Reply("updateProfile", IF R.out = OK THEN 200 ELSE 500, R.out, R)

ChangePassword(h, current, new) ==
  LET gate == auth(users, jwtSecret, now, h) IN
  IF ~gate.next THEN Reject(gate)
  ELSE LET R == changePassword(users, nextId, nextReset, gate.user, current, new)
       IN  Reply("changePassword",
                 IF R.out = OK THEN 200
                 ELSE IF R.out = UserNotFound THEN 500 ELSE 400,
                 R.out, R)

SetPassword(h, password) ==
  LET gate == auth(users, jwtSecret, now, h) IN
  IF ~gate.next THEN Reject(gate)
  ELSE LET R == setPasswordForOAuthUser(users, nextId, nextReset, gate.user,
                                        password)
       IN  Reply("setPasswordForOAuthUser",
                 IF R.out = OK THEN 200
                 ELSE IF R.out = UserNotFound THEN 500 ELSE 400,
                 R.out, R)

DeleteAccount(h) ==
  LET gate == auth(users, jwtSecret, now, h) IN
  IF ~gate.next THEN Reject(gate)
  ELSE LET R == deleteAccount(users, nextId, nextReset, gate.user)
       IN  Reply("deleteAccount", IF R.out = OK THEN 200 ELSE 500, R.out, R)

----------------------------------------------------------------------------
(* Routes behind auth and adminOnly *)

Flags == {Unset, "true", "false"}

(* UserController.adminUpdateUser: works on the model directly *)
adminUpdateUser(us, nid, nr, id, name, role, isAdmin, isVerified) ==
  IF FindById(us, id) = NoId
    THEN Result(UserNotFound, us, nid, nr, NoId, NoJwt)
    ELSE Result(OK,
           [us EXCEPT
              ![id].name = IF name # "" THEN name ELSE @,
              ![id].role = IF role # "" THEN role ELSE @,
              ![id].isAdmin = IF isAdmin # Unset THEN isAdmin = "true" ELSE @,
              ![id].isVerified =
                 IF isVerified # Unset THEN isVerified = "true" ELSE @],
           nid, nr, id, NoJwt)

AdminUpdateUser(h, id, name, role, isAdmin, isVerified) ==
  LET gate == auth(users, jwtSecret, now, h) IN
  IF ~gate.next THEN Reject(gate)
  ELSE IF ~adminOnly(users, gate).next THEN Reject(adminOnly(users, gate))
  ELSE LET R == adminUpdateUser(users, nextId, nextReset, id, name, role,
                                isAdmin, isVerified)
       IN  Reply("adminUpdateUser", IF R.out = OK THEN 200 ELSE 404, R.out, R)

(* UserController.getAllUsers *)
GetAllUsers(h) ==
  LET gate == auth(users, jwtSecret, now, h) IN
  IF ~gate.next THEN Reject(gate)
  ELSE IF ~adminOnly(users, gate).next THEN Reject(adminOnly(users, gate))
  ELSE Reply("getAllUsers", 200, OK,
             Result(OK, users, nextId, nextReset, gate.user, NoJwt))

(* UserController.adminDeleteUser: findByIdAndDelete on the model directly *)
AdminDeleteUser(h, id) ==
  LET gate == auth(users, jwtSecret, now, h) IN
  IF ~gate.next THEN Reject(gate)
  ELSE IF ~adminOnly(users, gate).next THEN Reject(adminOnly(users, gate))
  ELSE LET R == deleteAccount(users, nextId, nextReset, id)
       IN  Reply("adminDeleteUser", IF R.out = OK THEN 200 ELSE 404, R.out, R)

----------------------------------------------------------------------------
(* Requests that run concurrently: each is suspended at the await of its
   findOne, and resumed with what the findOne returned *)

Suspend(p, req) ==
  /\ inflight[p] = IdleRequest
  /\ inflight' = [inflight EXCEPT ![p] = req]
  /\ UNCHANGED <<users, nextId, nextReset, now, ticks, jwtSecret, boot, issued, resp,
                 testimonials, nextTid>>

Resume(p, op, status, body, R) ==
  /\ Respond(op, status, body, R)
  /\ inflight' = [inflight EXCEPT ![p] = IdleRequest]

RegisterFind(p, email, password) ==
  Suspend(p, Request("register", email, password, "",
                     FindByEmail(users, email), NoDoc))

RegisterSave(p) ==
  /\ inflight[p].op = "register"
  /\ LET q == inflight[p]
         R == registerSave(users, nextId, nextReset, q.found, q.email,
                           DefaultName, q.password)
     IN  Resume(p, "register", registerStatus(R.out), registerBody(R.out), R)

OAuthFind(p, provider, email) ==
  LET found == FindByEmail(users, email)
  IN  Suspend(p, Request("oauthLogin", email, "", provider, found,
                         Snapshot(users, found)))

OAuthSave(p) ==
  /\ inflight[p].op = "oauthLogin"
  /\ LET q == inflight[p]
         R == oauthResolve(users, nextId, nextReset, jwtSecret, now, q.found,
                           q.doc, Profile(q.provider, q.email, DefaultName),
                           q.provider)
     IN  Resume(p, "oauthLogin", IF R.out = OK THEN 200 ELSE 500, R.out, R)

GoogleFind(p, email) ==
  LET found == FindByEmail(users, email)
  IN  Suspend(p, Request("googleCallback", email, "", "google", found,
                         Snapshot(users, found)))

GoogleSave(p) ==
  /\ inflight[p].op = "googleCallback"
  /\ LET q == inflight[p]
         R == googleCallback(
                googleResolve(users, nextId, nextReset, q.found, q.doc,
                              Profile("google", q.email, DefaultName)),
                jwtSecret, now)
     IN  Resume(p, "googleCallback", IF R.out = OK THEN 302 ELSE 500, R.out, R)

----------------------------------------------------------------------------
(* setPasswordForOAuthUser and resetPassword, other requests running between
   their query and their save().  save() sets the modified paths of the
   document with the _id the query returned, whatever that document holds by
   then, and throws when it is gone. *)

(* setPasswordForOAuthUser, after its findById returned `doc` *)
setPasswordResolve(us, nid, nr, found, doc, password) ==
  IF found = NoId
    THEN Result(UserNotFound, us, nid, nr, NoId, NoJwt)
  ELSE IF doc.password # NoPassword
    THEN Result(<<"User already has a password">>, us, nid, nr, NoId, NoJwt)
  ELSE IF found \notin DOMAIN us
    THEN Result(DocumentNotFound, us, nid, nr, NoId, NoJwt)
  ELSE Result(OK, [us EXCEPT ![found].password = Hash(password)],
              nid, nr, found, NoJwt)

(* resetPassword, after its findOne returned the document with _id `found` *)
resetPasswordResolve(us, nid, nr, found, newPassword) ==
  IF found = NoId
    THEN Result(InvalidOrExpired, us, nid, nr, NoId, NoJwt)
  ELSE IF found \notin DOMAIN us
    THEN Result(DocumentNotFound, us, nid, nr, NoId, NoJwt)
  ELSE Result(OK,
              [us EXCEPT ![found].password = Hash(newPassword),
                         ![found].resetPasswordToken = NoToken,
                         ![found].resetPasswordExpires = NoDate],
              nid, nr, found, NoJwt)

SetPasswordFind(p, h, password) ==
  LET gate == auth(users, jwtSecret, now, h) IN
  IF ~gate.next THEN Reject(gate)
  ELSE LET found == FindById(users, gate.user)
       IN  Suspend(p, Request("setPasswordForOAuthUser", "", password, "",
                              found, Snapshot(users, found)))

SetPasswordSave(p) ==
  /\ inflight[p].op = "setPasswordForOAuthUser"
  /\ LET q == inflight[p]
         R == setPasswordResolve(users, nextId, nextReset, q.found, q.doc,
                                 q.password)
     IN  Resume(p, "setPasswordForOAuthUser",
                IF R.out = OK THEN 200
                ELSE IF R.out = UserNotFound \/ R.out = DocumentNotFound
                  THEN 500 ELSE 400,
                R.out, R)

ResetFind(p, token, password) ==
  LET found == FindOne({i \in DOMAIN users :
                          /\ users[i].resetPasswordToken = token
                          /\ users[i].resetPasswordExpires > now})
  IN  Suspend(p, Request("resetPassword", "", password, "", found,
                         Snapshot(users, found)))

ResetSave(p) ==
  /\ inflight[p].op = "resetPassword"
  /\ LET q == inflight[p]
         R == resetPasswordResolve(users, nextId, nextReset, q.found,
                                   q.password)
     IN  Resume(p, "resetPassword", resetPasswordStatus(R.out),
                IF R.out = OK THEN <<"Password reset successful">> ELSE R.out,
                R)

----------------------------------------------------------------------------
(* Testimonials.  A rating is a JSON number; it is counted in half stars, so
   that 4.5 is a value as well as 4 and 5 *)

Stars(n) == 2 * n
MinRating == Stars(1)
MaxRating == Stars(5)

(* rating undefined *)
NoRating == -1

Ratings == {NoRating, Stars(0), Stars(1), Stars(4) + 1, Stars(5), Stars(6)}
TestimonialIds == 1..MaxTestimonials

(* An _id as the driver hands it out, and the string toString() makes of it *)
ObjectId(i) == [type |-> "ObjectId", hex |-> i]
toString(oid) == [type |-> "string", hex |-> oid.hex]

TestimonialNotFound == <<"Testimonial not found">>
NotAuthorized(what) == <<"Not authorized to", what, "this testimonial">>
ValidationFailed == <<"Testimonial validation failed">>
RatingOutOfRange == <<"Rating must be between 1 and 5">>
FieldsRequired == <<"Name, content, and rating are required">>
IsApprovedRequired == <<"isApproved field is required">>

TestimonialDoc(user, name, content, rating, isApproved, createdAt, updatedAt) ==
  [user |-> user, name |-> name, content |-> content, rating |-> rating,
   isApproved |-> isApproved, createdAt |-> createdAt, updatedAt |-> updatedAt]

(* the object a controller hands to the service; a key the request body
   lacks is there with the value undefined, isApproved is a key only when
   it is not Unset *)
TestimonialInput(name, content, rating, isApproved) ==
  [name |-> name, content |-> content, rating |-> rating,
   isApproved |-> isApproved]

(* The validators save() runs: required paths, rating min 1 and max 5 *)
Validates(doc) ==
  /\ doc.name # Unset
  /\ doc.content # Unset
  /\ doc.rating # NoRating
  /\ doc.rating >= MinRating
  /\ doc.rating <= MaxRating

(* save() of a document: timestamps moves updatedAt when a path was modified *)
Stamp(old, doc, t) ==
  IF doc = old THEN doc ELSE [doc EXCEPT !.updatedAt = t]

(* What a TestimonialService method leaves behind *)
TestimonialResult(out, ts, ntid, tid) ==
  [out |-> out, testimonials |-> ts, nextTid |-> ntid, tid |-> tid]

createTestimonial(ts, ntid, userId, data, t) ==
  LET doc == TestimonialDoc(userId.hex, data.name, data.content, data.rating,
                            FALSE, t, t)
  IN  IF ~Validates(doc)
        THEN TestimonialResult(ValidationFailed, ts, ntid, NoId)
        ELSE TestimonialResult(OK,
               [i \in DOMAIN ts \cup {ntid} |-> IF i = ntid THEN doc ELSE ts[i]],
               ntid + 1, ntid)

updateTestimonial(ts, ntid, tid, userId, isAdmin, data, t) ==
  IF tid \notin DOMAIN ts
    THEN TestimonialResult(TestimonialNotFound, ts, ntid, tid)
  ELSE IF ~isAdmin /\ toString(ObjectId(ts[tid].user)) # userId
    THEN TestimonialResult(NotAuthorized("update"), ts, ntid, tid)
  ELSE LET copied == [ts[tid] EXCEPT !.name = data.name,
                                     !.content = data.content,
                                     !.rating = data.rating]
           doc == IF isAdmin /\ data.isApproved # Unset
                    THEN [copied EXCEPT !.isApproved = (data.isApproved = "true")]
                    ELSE copied
       IN  IF ~Validates(doc)
             THEN TestimonialResult(ValidationFailed, ts, ntid, tid)
             ELSE TestimonialResult(OK,
                    [ts EXCEPT ![tid] = Stamp(ts[tid], doc, t)], ntid, tid)

deleteTestimonial(ts, ntid, tid, userId, isAdmin) ==
  IF tid \notin DOMAIN ts
    THEN TestimonialResult(TestimonialNotFound, ts, ntid, tid)
  ELSE IF ~isAdmin /\ toString(ObjectId(ts[tid].user)) # userId
    THEN TestimonialResult(NotAuthorized("delete"), ts, ntid, tid)
  ELSE TestimonialResult(OK, [i \in DOMAIN ts \ {tid} |-> ts[i]], ntid, tid)

(* moderateTestimonial that only ever approves *)
moderateTestimonial_OneWay(ts, ntid, tid, isApproved, t) ==
  IF tid \notin DOMAIN ts
    THEN TestimonialResult(TestimonialNotFound, ts, ntid, tid)
    ELSE TestimonialResult(OK,
           [ts EXCEPT ![tid] =
              Stamp(ts[tid], [ts[tid] EXCEPT !.isApproved = TRUE], t)],
           ntid, tid)

moderateTestimonial(ts, ntid, tid, isApproved, t) ==
  IF tid \notin DOMAIN ts
    THEN TestimonialResult(TestimonialNotFound, ts, ntid, tid)
    ELSE TestimonialResult(OK,
           [ts EXCEPT ![tid] =
              Stamp(ts[tid], [ts[tid] EXCEPT !.isApproved = isApproved], t)],
           ntid, tid)

(* TestimonialController *)

(* a range check that lets every rating through *)
ratingOutOfRange_Lax(rating) == FALSE

(* rating < 1 || rating > 5 *)
ratingOutOfRange(rating) == rating < MinRating \/ rating > MaxRating

(* !rating: undefined and 0 are falsy *)
Falsy(rating) == rating = NoRating \/ rating = 0

(* A testimonial handler's effect: the collection the service left, and the
   response *)
TestimonialReply(op, status, body, R, uid) ==
  /\ testimonials' = R.testimonials
  /\ nextTid' = R.nextTid
  /\ resp' = Response(op, status, body, R.out, uid, NoJwt)
  /\ UNCHANGED <<users, nextId, nextReset, now, ticks, jwtSecret, boot, issued,
                 inflight>>

(* A 400 the controller answers before it calls the service *)
BadRequest(op, body, uid) ==
  TestimonialReply(op, 400, body,
                   TestimonialResult(NoService, testimonials, nextTid, NoId),
                   uid)

CreateTestimonial(h, name, content, rating, isApproved) ==
  LET gate == auth(users, jwtSecret, now, h) IN
  IF ~gate.next THEN Reject(gate)
  ELSE IF name = Unset \/ content = Unset \/ Falsy(rating)
    THEN BadRequest("createTestimonial", FieldsRequired, gate.user)
  ELSE IF ratingOutOfRange(rating)
    THEN BadRequest("createTestimonial", RatingOutOfRange, gate.user)
  ELSE LET R == createTestimonial(testimonials, nextTid, ObjectId(gate.user),
                                  TestimonialInput(name, content, rating, Unset),
                                  now)
       IN  /\ nextTid <= MaxTestimonials
           /\ TestimonialReply("createTestimonial",
                               IF R.out = OK THEN 201 ELSE 500,
                               IF R.out = OK THEN OK
                               ELSE ServerError("creating testimonial"),
                               R, gate.user)

UpdateTestimonial(h, tid, name, content, rating, isApproved) ==
  LET gate == auth(users, jwtSecret, now, h) IN
  IF ~gate.next THEN Reject(gate)
  ELSE IF rating # NoRating /\ ratingOutOfRange(rating)
    THEN BadRequest("updateTestimonial", RatingOutOfRange, gate.user)
  ELSE LET R == updateTestimonial(testimonials, nextTid, tid,
                                  ObjectId(gate.user), users[gate.user].isAdmin,
                                  TestimonialInput(name, content, rating, Unset),
                                  now)
       IN  TestimonialReply("updateTestimonial",
                            IF R.out = OK THEN 200
                            ELSE IF R.out = TestimonialNotFound THEN 404
                            ELSE IF R.out = NotAuthorized("update") THEN 403
                            ELSE 500,
                            IF R.out \in {OK, TestimonialNotFound,
                                          NotAuthorized("update")}
                              THEN R.out
                              ELSE ServerError("updating testimonial"),
                            R, gate.user)

DeleteTestimonial(h, tid) ==
  LET gate == auth(users, jwtSecret, now, h) IN
  IF ~gate.next THEN Reject(gate)
  ELSE LET R == deleteTestimonial(testimonials, nextTid, tid,
                                  ObjectId(gate.user), users[gate.user].isAdmin)
       IN  TestimonialReply("deleteTestimonial",
                            IF R.out = OK THEN 200
                            ELSE IF R.out = TestimonialNotFound THEN 404
                            ELSE 403,
                            R.out, R, gate.user)

ModerateTestimonial(h, tid, isApproved) ==
  LET gate == auth(users, jwtSecret, now, h) IN
  IF ~gate.next THEN Reject(gate)
  ELSE IF ~adminOnly(users, gate).next THEN Reject(adminOnly(users, gate))
  ELSE IF isApproved = Unset
    THEN BadRequest("moderateTestimonial", IsApprovedRequired, gate.user)
  ELSE LET R == moderateTestimonial(testimonials, nextTid, tid,
                                    isApproved = "true", now)
       IN  TestimonialReply("moderateTestimonial",
                            IF R.out = OK THEN 200 ELSE 404,
                            R.out, R, gate.user)

----------------------------------------------------------------------------
(* Reading testimonials.  A response lists documents; shown holds their ids *)

(* Testimonial.find(filter): { isApproved: true } when approvedOnly *)
getAllTestimonials(ts, approvedOnly) ==
  {tid \in DOMAIN ts : approvedOnly => ts[tid].isApproved}

(* Testimonial.find({ user: userId }) *)
getUserTestimonials(ts, userId) ==
  {tid \in DOMAIN ts : ts[tid].user = userId}

(* Testimonial.findById(testimonialId) *)
getTestimonialById(ts, ntid, tid) ==
  IF tid \notin DOMAIN ts
    THEN TestimonialResult(TestimonialNotFound, ts, ntid, NoId)
    ELSE TestimonialResult(OK, ts, ntid, tid)

Listing(op, status, out, uid, shown) ==
  /\ resp' = [op |-> op, status |-> status, body |-> out, out |-> out,
              uid |-> uid, token |-> NoJwt, payload |-> {}, shown |-> shown]
  /\ UNCHANGED <<users, nextId, nextReset, now, ticks, jwtSecret, boot, issued,
                 inflight, testimonials, nextTid>>

(* GET / and GET /approved: no middleware *)
GetAllTestimonials ==
  Listing("getAllTestimonials", 200, OK, NoId,
          getAllTestimonials(testimonials, TRUE))

(* GET /:id: no middleware *)
GetTestimonialById(tid) ==
  LET R == getTestimonialById(testimonials, nextTid, tid)
  IN  Listing("getTestimonialById", IF R.out = OK THEN 200 ELSE 404, R.out,
              NoId, IF R.out = OK THEN {R.tid} ELSE {})

(* GET /user/me *)
GetUserTestimonials(h) ==
  LET gate == auth(users, jwtSecret, now, h) IN
  IF ~gate.next THEN Reject(gate)
  ELSE Listing("getUserTestimonials", 200, OK, gate.user,
               getUserTestimonials(testimonials, gate.user))

(* GET /admin/all *)
GetAllTestimonialsAdmin(h) ==
  LET gate == auth(users, jwtSecret, now, h) IN
  IF ~gate.next THEN Reject(gate)
  ELSE IF ~adminOnly(users, gate).next THEN Reject(adminOnly(users, gate))
  ELSE Listing("getAllTestimonialsAdmin", 200, OK, gate.user,
               getAllTestimonials(testimonials, FALSE))

----------------------------------------------------------------------------
(* UserController.logout: the client is told to drop the token it holds; the
   server keeps nothing about tokens *)
Logout ==
  /\ issued # {}
  /\ issued' = {}
  /\ resp' = Response("logout", 200, <<"Logged out successfully">>, OK, NoId,
                      NoJwt)
  /\ UNCHANGED <<users, nextId, nextReset, now, ticks, jwtSecret, boot, inflight,
                 testimonials, nextTid>>

----------------------------------------------------------------------------
(* Time passes *)

Tick(d) ==
  /\ ticks < MaxTicks
  /\ now' = now + d
  /\ ticks' = ticks + 1
  /\ UNCHANGED <<users, nextId, nextReset, jwtSecret, boot, issued, resp, inflight,
                 testimonials, nextTid>>

----------------------------------------------------------------------------
(* Startup.  initialize() waits for both database connections and then starts
   the server; the connections emit their events when the driver has them *)

Connections == {"primary", "secondary"}
Events == {"connected", "error"}

(* process.exit(1), and no exit so far *)
ExitFailure == 1
Running == -1

(* initialize() at its await: both promises pending, the 5 s timer armed *)
Booting ==
  [connectPrimary |-> "pending", connectSecondary |-> "pending",
   timer |-> "armed", emitted |-> [c \in Connections |-> 0], seen |-> {},
   phase |-> "awaiting", exitCode |-> Running]

(* the server listening: both connections came up, startServer() was called *)
Serving ==
  [connectPrimary |-> "resolved", connectSecondary |-> "resolved",
   timer |-> "armed", emitted |-> [c \in Connections |-> 1],
   seen |-> {<<c, "connected">> : c \in Connections},
   phase |-> "started", exitCode |-> Running]

(* what a once() listener of initialize does to the promise it belongs to:
   the first event settles it, later ones find it settled *)
Settle(promise, ev) ==
  IF promise # "pending" THEN promise
  ELSE IF ev = "connected" THEN "resolved" ELSE "rejected"

(* connection c emits ev *)
Emit(c, ev) ==
  /\ boot.phase # "exited"
  /\ boot.emitted[c] < MaxEvents
  /\ boot' = [boot EXCEPT
                !.emitted[c] = @ + 1,
                !.seen = @ \cup {<<c, ev>>},
                !.connectPrimary = IF c = "primary" THEN Settle(@, ev) ELSE @,
                !.connectSecondary = IF c = "secondary" THEN Settle(@, ev) ELSE @]
  /\ UNCHANGED <<users, nextId, nextReset, now, ticks, jwtSecret, issued, resp,
                 inflight, testimonials, nextTid>>

(* the setTimeout of connectPrimary fires: Promise.race rejects unless the
   primary connection settled it before *)
Timeout ==
  /\ boot.phase # "exited"
  /\ boot.timer = "armed"
  /\ boot' = [boot EXCEPT
                !.timer = "fired",
                !.connectPrimary = IF @ = "pending" THEN "rejected" ELSE @]
  /\ UNCHANGED <<users, nextId, nextReset, now, ticks, jwtSecret, issued, resp,
                 inflight, testimonials, nextTid>>

(* await Promise.all([connectPrimary, connectSecondary]) settles: startServer()
   when both resolved, the catch block and process.exit(1) when one rejected *)
Continue ==
  /\ boot.phase = "awaiting"
  /\ \/ "rejected" \in {boot.connectPrimary, boot.connectSecondary}
     \/ {boot.connectPrimary, boot.connectSecondary} = {"resolved"}
  /\ boot' = IF "rejected" \in {boot.connectPrimary, boot.connectSecondary}
               THEN [boot EXCEPT !.phase = "exited", !.exitCode = ExitFailure]
               ELSE [boot EXCEPT !.phase = "started"]
  /\ UNCHANGED <<users, nextId, nextReset, now, ticks, jwtSecret, issued, resp,
                 inflight, testimonials, nextTid>>

----------------------------------------------------------------------------
(* The store and the environment a process starts with *)
InitStore ==
  /\ users = (1 :> SeedAdmin)
  /\ nextId = 2
  /\ nextReset = 1
  /\ now = 0
  /\ ticks = 0
  /\ jwtSecret \in EnvSecrets
  /\ issued = {}
  /\ resp = NoResponse
  /\ inflight = [p \in Procs |-> IdleRequest]
  /\ testimonials = <<>>
  /\ nextTid = 1

(* The server listening, no request handled yet *)
Init == InitStore /\ boot = Serving

(* The process started, initialize() waiting for the connections *)
InitBoot == InitStore /\ boot = Booting

(* A deployment with JWT_SECRET set *)
InitConfigured == Init /\ jwtSecret # ""

(* Requests that carry a token the client was issued *)
Held == {Bearer(tok) : tok \in issued}

(* The account lifecycle: registration, verification, OAuth take-over,
   administration and deletion, the clock standing still *)
Next ==
  \/ \E e \in Emails, p \in Passwords : Register(e, DefaultName, p)
  \/ \E e \in Emails, p \in Passwords : Login(e, p)
  \/ \E t \in Ids : VerifyEmail(t)
  \/ \E pr \in OAuthProviders, e \in Emails : OAuthLogin(pr, e, DefaultName)
  \/ \E e \in Emails : GoogleCallback(e, DefaultName)
  \/ \E h \in Held, c \in Passwords, p \in Passwords : ChangePassword(h, c, p)
  \/ \E h \in Held : DeleteAccount(h)
  \/ \E h \in Held, id \in Ids, v \in {"true", "false"} :
        AdminUpdateUser(h, id, "", "", Unset, v)
  \/ \E h \in Held, id \in Ids : AdminDeleteUser(h, id)

Spec == InitConfigured /\ [][Next]_vars

(* Password reset against the clock *)
NextTime ==
  \/ \E e \in Emails, p \in Passwords : Register(e, DefaultName, p)
  \/ \E e \in Emails, p \in Passwords : Login(e, p)
  \/ \E t \in Ids : VerifyEmail(t)
  \/ \E e \in Emails \cup {NoEmail} : RequestPasswordReset(e)
  \/ \E t \in ResetTokens, p \in Passwords : ResetPassword(t, p)
  \/ \E e \in Emails : GoogleCallback(e, DefaultName)
  \/ Tick(TickShort)

SpecTime == Init /\ [][NextTime]_vars

(* The gate and the tokens presented to it *)
NextGate ==
  \/ \E e \in Emails, p \in Passwords : Login(e, p)
  \/ \E pr \in OAuthProviders, e \in Emails : OAuthLogin(pr, e, DefaultName)
  \/ \E e \in Emails : GoogleCallback(e, DefaultName)
  \/ \E h \in Headers : GetCurrentUser(h)
  \/ \E h \in Held, p \in Passwords : SetPassword(h, p)
  \/ \E h \in Held : DeleteAccount(h)
  \/ \E h \in Held, id \in Ids : AdminDeleteUser(h, id)
  \/ \E d \in {TickShort, TickLong} : Tick(d)

SpecGate == Init /\ [][NextGate]_vars

(* Concurrent registrations and OAuth resolutions, among the requests that
   write user documents *)
NextRace ==
  \/ \E p \in Procs, e \in Emails : RegisterFind(p, e, "pw1")
  \/ \E p \in Procs : RegisterSave(p)
  \/ \E p \in Procs, e \in Emails : OAuthFind(p, "google", e)
  \/ \E p \in Procs : OAuthSave(p)
  \/ \E p \in Procs, e \in Emails : GoogleFind(p, e)
  \/ \E p \in Procs : GoogleSave(p)
  \/ \E e \in Emails : Login(e, "pw1")
  \/ \E h \in Held, n \in Names : UpdateProfile(h, n, DefaultPicture)
  \/ \E h \in Held : DeleteAccount(h)
  \/ \E h \in Held, id \in Ids :
        AdminUpdateUser(h, id, "", "", Unset, "true")
  \/ \E h \in Held, id \in Ids : AdminDeleteUser(h, id)

SpecRace == InitConfigured /\ [][NextRace]_vars

(* Administration: flags and roles change under tokens already issued *)
NextAdmin ==
  \/ \E e \in Emails : Login(e, "pw1")
  \/ \E e \in Emails : OAuthLogin("google", e, DefaultName)
  \/ \E h \in Held : GetAllUsers(h)
  \/ \E h \in Held, id \in Ids, r \in {"", "user", "admin"}, a \in Flags :
        AdminUpdateUser(h, id, "", r, a, Unset)
  \/ \E h \in Held, id \in Ids : AdminDeleteUser(h, id)
  \/ Logout

SpecAdmin == InitConfigured /\ [][NextAdmin]_vars

(* Passwords and providers: every way a record gets or changes either *)
NextCredential ==
  \/ \E e \in Emails, p \in Passwords : Register(e, DefaultName, p)
  \/ \E t \in Ids : VerifyEmail(t)
  \/ \E e \in Emails : Login(e, "pw1")
  \/ \E pr \in OAuthProviders, e \in Emails : OAuthLogin(pr, e, DefaultName)
  \/ \E e \in Emails : GoogleCallback(e, DefaultName)
  \/ \E h \in Held, p \in Passwords : SetPassword(h, p)
  \/ \E h \in Held, p \in Passwords : ChangePassword(h, "pw1", p)
  \/ \E h \in Held : DeleteAccount(h)
  \/ Logout

SpecCredential == InitConfigured /\ [][NextCredential]_vars

(* Local accounts: every operation that writes a record a password login
   can read *)
NextLocal ==
  \/ \E e \in Emails : Register(e, DefaultName, "pw1")
  \/ \E t \in Ids : VerifyEmail(t)
  \/ \E e \in Emails, p \in Passwords : Login(e, p)
  \/ \E e \in Emails : OAuthLogin("google", e, DefaultName)
  \/ \E h \in Held : ChangePassword(h, "pw1", "pw2")
  \/ \E e \in Emails : RequestPasswordReset(e)
  \/ \E t \in ResetTokens : ResetPassword(t, "pw2")
  \/ \E h \in Held, id \in Ids, v \in {"true", "false"} :
        AdminUpdateUser(h, id, "", "", Unset, v)

SpecLocal == InitConfigured /\ [][NextLocal]_vars

(* Sessions: what happens to the account while a token of it is out *)
NextSession ==
  \/ Login(SeedEmail, "pw1")
  \/ \E e \in Emails : OAuthLogin("google", e, DefaultName)
  \/ \E h \in Held : ChangePassword(h, "pw1", "pw2")
  \/ RequestPasswordReset(SeedEmail)
  \/ \E t \in ResetTokens : ResetPassword(t, "pw1")
  \/ \E h \in Held, v \in {"true", "false"} :
        AdminUpdateUser(h, 1, "", "user", Unset, v)
  \/ \E h \in Held : DeleteAccount(h)
  \/ Logout
  \/ Tick(TickLong)

SpecSession == InitConfigured /\ [][NextSession]_vars

----------------------------------------------------------------------------
(* UserController, response by response: every res.status(..).json(..) a
   handler attempts for one request.  The first attempt is the response the
   client gets; a later one throws "Cannot set headers after they are sent",
   inside the try block into the catch block, inside the catch block out of
   the handler. *)

(* a body field holding the empty string: falsy, yet a string *)
Blank == ""

(* The attempts of a handler whose validation failed or not (invalid), whose
   service call ended with out, which answers okStatus on success, and whose
   catch block answers mappedStatus first for the errors it maps (0 for the
   others) and catchStatus last *)
Attempts(invalid, out, okStatus, mappedStatus, catchStatus) ==
  LET validated == IF invalid THEN <<400>> ELSE <<>>
      tried == IF out = OK THEN validated \o <<okStatus>> ELSE validated
      thrown == out # OK \/ invalid
  IN  IF ~thrown THEN tried
      ELSE IF out # OK /\ mappedStatus # 0
        THEN IF tried = <<>> THEN <<mappedStatus, catchStatus>>
                             ELSE tried \o <<mappedStatus>>
      ELSE tried \o <<catchStatus>>

(* The handler's effect: the store its service call left, the response the
   client got (a token only in a success response that went out first), and
   the attempts *)
Answer(op, invalid, sent, R) ==
  LET first == Head(sent)
      token == IF Len(sent) = 1 THEN R.token ELSE NoJwt
  IN  /\ R.nextId <= MaxUsers + 1
      /\ R.nextReset <= MaxResets + 1
      /\ users' = R.users
      /\ nextId' = R.nextId
      /\ nextReset' = R.nextReset
      /\ issued' = Keep(token)
      /\ resp' = [op |-> op, status |-> first, body |-> R.out, out |-> R.out,
                  uid |-> R.uid, token |-> token,
                  payload |-> IF first < 300 THEN UserPayload(op, R) ELSE {},
                  invalid |-> invalid, sent |-> sent]
      /\ UNCHANGED <<now, ticks, jwtSecret, boot, inflight, testimonials, nextTid>>

(* UserService.getUserById *)
getUserById(us, nid, nr, userId) ==
  IF FindById(us, userId) = NoId
    THEN Result(UserNotFound, us, nid, nr, NoId, NoJwt)
    ELSE Result(OK, us, nid, nr, userId, NoJwt)

HandleRegister(email, name, password) ==
  LET R == register(users, nextId, nextReset, email, name, password)
  IN  Answer("register", password = Blank,
             Attempts(password = Blank, R.out, 201,
                      IF R.out = EmailInUse THEN 400 ELSE 0, 500), R)

HandleLogin(email, password) ==
  LET R == login(users, nextId, nextReset, jwtSecret, now, email, password)
      invalid == email = NoEmail \/ password = Blank
  IN  Answer("login", invalid,
             Attempts(invalid, R.out, 200,
                      IF loginStatus(R.out) = 400 THEN 400 ELSE 0, 500), R)

HandleVerifyEmail(token) ==
  LET R == verifyEmail(users, nextId, nextReset, token)
  IN  Answer("verifyEmail", FALSE,
             Attempts(FALSE, R.out, 200,
                      IF R.out = InvalidVerificationToken THEN 400 ELSE 0, 500),
             R)

HandleRequestPasswordReset(email) ==
  LET R == requestPasswordReset(users, nextId, nextReset, now, email)
  IN  Answer("requestPasswordReset", email = NoEmail,
             Attempts(email = NoEmail, R.out, 200, 0, 200), R)

HandleResetPassword(token, password) ==
  LET R == resetPassword(users, nextId, nextReset, now, token, password)
  IN  Answer("resetPassword", password = Blank,
             Attempts(password = Blank, R.out, 200,
                      IF R.out = InvalidOrExpired THEN 400 ELSE 0, 500), R)

(* the handlers behind the gates, for the requests the gates let through *)
HandleChangePassword(h, current, new) ==
  LET gate == auth(users, jwtSecret, now, h)
      R == changePassword(users, nextId, nextReset, gate.user, current, new)
      invalid == current = Blank \/ new = Blank
  IN  /\ gate.next
      /\ Answer("changePassword", invalid,
                Attempts(invalid, R.out, 200,
                         IF R.out # OK /\ R.out # UserNotFound THEN 400 ELSE 0,
                         500), R)

HandleGetUserById(h, id) ==
  LET gate == auth(users, jwtSecret, now, h)
      R == getUserById(users, nextId, nextReset, id)
  IN  /\ gate.next
      /\ adminOnly(users, gate).next
      /\ Answer("getUserById", FALSE,
                Attempts(FALSE, R.out, 200,
                         IF R.out = UserNotFound THEN 404 ELSE 0, 500), R)

(* findByIdAndDelete; 404 when nothing was deleted, then 200 all the same *)
HandleAdminDeleteUser(h, id) ==
  LET gate == auth(users, jwtSecret, now, h)
      R == deleteAccount(users, nextId, nextReset, id)
  IN  /\ gate.next
      /\ adminOnly(users, gate).next
      /\ Answer("adminDeleteUser", FALSE,
                IF R.out = OK THEN <<200>> ELSE <<404, 200, 500>>, R)

(* The user routes, with bodies whose fields may be blank *)
NextHandler ==
  \/ \E e \in Emails, p \in {"pw1", Blank} : HandleRegister(e, DefaultName, p)
  \/ \E e \in Emails \cup {NoEmail}, p \in {"pw1", Blank} : HandleLogin(e, p)
  \/ \E t \in Ids : HandleVerifyEmail(t)
  \/ \E e \in {SeedEmail, NoEmail} : HandleRequestPasswordReset(e)
  \/ \E t \in ResetTokens, p \in {"pw1", Blank} : HandleResetPassword(t, p)
  \/ \E h \in Held, c \in {"pw1", Blank}, n \in {"pw2", Blank} :
        HandleChangePassword(h, c, n)
  \/ \E h \in Held, id \in Ids : HandleGetUserById(h, id)
  \/ \E h \in Held, id \in Ids : HandleAdminDeleteUser(h, id)

SpecHandler == InitConfigured /\ [][NextHandler]_vars

(* The objects updateProfile is handed: what the controller builds from a
   body, fields present or not, and an object that also names the paths the
   service is to leave alone *)
ProfileData ==
  {[name |-> Unset, picture |-> Unset], [name |-> "Bob", picture |-> "p2.png"]}
    \cup {[name |-> "Bob", email |-> "evil@x.com", password |-> Hash("pw2"),
           provider |-> "github", providerId |-> <<"github", "evil@x.com">>,
           role |-> "admin", isAdmin |-> TRUE, isVerified |-> TRUE,
           verificationToken |-> NoToken, resetPasswordToken |-> 1,
           resetPasswordExpires |-> ResetTTLms]}

(* userService.updateProfile called with any id and any object *)
UpdateProfileWith(userId, updateData) ==
  \E omitUndefined \in BOOLEAN :
    LET R == updateProfile(users, nextId, nextReset, userId, updateData,
                           omitUndefined)
    IN  Reply("updateProfile", IF R.out = OK THEN 200 ELSE 500, R.out, R)

(* Profiles edited on a store of local and OAuth records, some with a reset
   pending *)
NextProfile ==
  \/ Login(SeedEmail, "pw1")
  \/ \E e \in Emails : OAuthLogin("google", e, DefaultName)
  \/ RequestPasswordReset(SeedEmail)
  \/ \E h \in Held : UpdateProfile(h, Unset, "p2.png")
  \/ \E h \in Held : UpdateProfile(h, "Bob", Unset)
  \/ \E id \in Ids, d \in ProfileData : UpdateProfileWith(id, d)
  \/ \E h \in Held : DeleteAccount(h)

SpecProfile == InitConfigured /\ [][NextProfile]_vars

(* Passwords set and reset by requests that overlap *)
NextOverlap ==
  \/ OAuthLogin("google", "a@x.com", DefaultName)
  \/ \E p \in Procs, h \in Held, w \in Passwords : SetPasswordFind(p, h, w)
  \/ \E p \in Procs : SetPasswordSave(p)
  \/ RequestPasswordReset(SeedEmail)
  \/ \E p \in Procs, t \in ResetTokens, w \in Passwords : ResetFind(p, t, w)
  \/ \E p \in Procs : ResetSave(p)
  \/ \E h \in Held : DeleteAccount(h)

SpecOverlap == InitConfigured /\ [][NextOverlap]_vars

(* Every way the API has of writing a user record, tried by administrators
   and by ordinary users alike *)
NextEscalation ==
  \/ Register("a@x.com", DefaultName, "pw1")
  \/ \E t \in Ids : VerifyEmail(t)
  \/ \E e \in Emails : Login(e, "pw1")
  \/ OAuthLogin("google", "a@x.com", DefaultName)
  \/ RequestPasswordReset(SeedEmail)
  \/ \E t \in ResetTokens : ResetPassword(t, "pw1")
  \/ \E id \in Ids, d \in {x \in ProfileData : "role" \in DOMAIN x} :
        UpdateProfileWith(id, d)
  \/ \E h \in Held : ChangePassword(h, "pw1", "pw1")
  \/ \E h \in Held : SetPassword(h, "pw1")
  \/ \E h \in Held : CreateTestimonial(h, DefaultName, "c1", Stars(5), "true")
  \/ \E h \in Held, id \in Ids, r \in {"user", "admin"},
        a \in {"true", "false"} :
        AdminUpdateUser(h, id, "", r, a, Unset)

SpecEscalation == InitConfigured /\ [][NextEscalation]_vars

(* Accounts resolved from Google profiles by each of the implementations *)
NextOAuth ==
  \/ \E e \in Emails, n \in Names : Register(e, n, "pw1")
  \/ \E t \in Ids : VerifyEmail(t)
  \/ \E pr \in OAuthProviders, e \in Emails : OAuthLogin(pr, e, DefaultName)
  \/ \E e \in Emails : GoogleCallback(e, DefaultName)
  \/ \E e \in Emails, n \in Names, r \in BOOLEAN : HandleGoogleCallback(e, n, r)

SpecOAuth == InitConfigured /\ [][NextOAuth]_vars

(* Testimonials: written by their authors, moderated by administrators *)
NextTestimonial ==
  \/ \E e \in Emails : Login(e, "pw1")
  \/ \E e \in Emails : OAuthLogin("google", e, DefaultName)
  \/ Logout
  \/ \E h \in Held, n \in {Unset, DefaultName}, r \in Ratings,
        a \in {Unset, "true"} :
        CreateTestimonial(h, n, "c1", r, a)
  \/ \E h \in Held, tid \in TestimonialIds, n \in {Unset, DefaultName},
        r \in Ratings, a \in {Unset, "true"} :
        UpdateTestimonial(h, tid, n, "c1", r, a)
  \/ \E h \in Held, tid \in TestimonialIds : DeleteTestimonial(h, tid)
  \/ \E h \in Held, tid \in TestimonialIds, a \in Flags :
        ModerateTestimonial(h, tid, a)

SpecTestimonial == InitConfigured /\ [][NextTestimonial]_vars

(* Testimonials and who gets to read them *)
NextRead ==
  \/ Login(SeedEmail, "pw1")
  \/ OAuthLogin("google", "a@x.com", DefaultName)
  \/ Logout
  \/ \E h \in Held : CreateTestimonial(h, DefaultName, "c1", Stars(5), Unset)
  \/ \E h \in Held, tid \in TestimonialIds, a \in {"true", "false"} :
        ModerateTestimonial(h, tid, a)
  \/ GetAllTestimonials
  \/ \E tid \in TestimonialIds : GetTestimonialById(tid)
  \/ \E h \in Held : GetUserTestimonials(h)
  \/ \E h \in Held : GetAllTestimonialsAdmin(h)

SpecRead == InitConfigured /\ [][NextRead]_vars

(* Testimonials and the accounts of their authors *)
NextAuthor ==
  \/ \E e \in Emails : Login(e, "pw1")
  \/ OAuthLogin("google", "a@x.com", DefaultName)
  \/ Logout
  \/ \E h \in Held : CreateTestimonial(h, DefaultName, "c1", Stars(5), Unset)
  \/ \E h \in Held, tid \in TestimonialIds : DeleteTestimonial(h, tid)
  \/ \E h \in Held : DeleteAccount(h)
  \/ \E h \in Held, id \in Ids : AdminDeleteUser(h, id)

SpecAuthor == InitConfigured /\ [][NextAuthor]_vars

(* Startup: the events of the connections, the timer, the continuation *)
NextBoot ==
  \/ \E c \in Connections, ev \in Events : Emit(c, ev)
  \/ Timeout
  \/ Continue

(* The timer fires while the process runs, and a settled Promise.all is
   resumed; nothing obliges a connection to emit an event *)
SpecBoot ==
  InitBoot /\ [][NextBoot]_vars /\ WF_vars(Timeout) /\ WF_vars(Continue)

(* Moderation while time passes *)
NextModerate ==
  \/ Login(SeedEmail, "pw1")
  \/ \E h \in Held : CreateTestimonial(h, DefaultName, "c1", Stars(5), "true")
  \/ \E h \in Held, tid \in TestimonialIds, a \in Flags :
        ModerateTestimonial(h, tid, a)
  \/ Tick(TickShort)

SpecModerate == InitConfigured /\ [][NextModerate]_vars

----------------------------------------------------------------------------
(* Vocabulary of the properties *)

(* The documents holding an email *)
Holding(us, e) == {i \in DOMAIN us : us[i].email = e}

(* A verification token that was handed out and is stored on no document *)
Spent(us, nid, t) ==
  t \in 1..(nid - 1) /\ \A i \in DOMAIN us : us[i].verificationToken # t

(* Email was verified (or the account taken over) by the request answered *)
Verifiers == {"verifyEmail", "adminUpdateUser", "oauthLogin", "googleCallback"}

----------------------------------------------------------------------------
(* C1, as the specification states it: login by a local account with its
   correct password fails with the not-verified error for as long as
   verifyEmail has not been called with the account's token, that is, while
   the token is still stored on the account. *)
C1_LoginBlockedUntilVerifyEmail ==
  [][\A i \in DOMAIN users, pw \in Passwords :
       (/\ users[i].provider = "local"
        /\ users[i].verificationToken # NoToken
        /\ Compare(pw, users[i].password)
        /\ Login(users[i].email, pw))
       => resp'.out = NotVerified]_vars

(* C1, as the code has it: login by a local account with its correct password
   fails with the not-verified error while the account's isVerified is false;
   isVerified turns true only in a successful verifyEmail, admin update or
   OAuth resolution answered for that account; verifyEmail succeeds for a
   token that is stored, marks its account verified and clears the token, and
   fails with the invalid-token error for a token that is not stored; a token
   cleared is never stored again. *)
C1_LoginBlockedWhileUnverified ==
  /\ [][\A i \in DOMAIN users, pw \in Passwords :
          (/\ users[i].provider = "local"
           /\ ~users[i].isVerified
           /\ Compare(pw, users[i].password)
           /\ Login(users[i].email, pw))
          => (resp'.out = NotVerified /\ resp'.token = NoJwt)]_vars
  /\ [][\A i \in DOMAIN users \cap DOMAIN users' :
          (~users[i].isVerified /\ users'[i].isVerified)
          => (resp'.op \in Verifiers /\ resp'.out = OK /\ resp'.uid = i)]_vars
  /\ [][\A t \in Ids :
          (resp'.op = "verifyEmail" /\ VerifyEmail(t)) =>
            IF \E i \in DOMAIN users : users[i].verificationToken = t
              THEN /\ resp'.out = OK
                   /\ users[resp'.uid].verificationToken = t
                   /\ users'[resp'.uid].isVerified
                   /\ Spent(users', nextId', t)
              ELSE /\ resp'.out = InvalidVerificationToken
                   /\ users' = users]_vars
  /\ [][\A t \in Ids :
          Spent(users, nextId, t) => Spent(users', nextId', t)]_vars

(* A registered account, its token not yet used, was refused a login with
   its password *)
C1_Witness ==
  /\ resp.op = "login"
  /\ resp.out = NotVerified
  /\ \E i \in DOMAIN users :
        /\ users[i].provider = "local"
        /\ ~users[i].isVerified
        /\ users[i].verificationToken # NoToken

----------------------------------------------------------------------------
(* A document that register created and OAuth resolution took over: register
   is the only operation that creates a document with a password, and before
   any reset was requested no other operation here gives one to an OAuth
   account *)
TakenOver(i) ==
  /\ users[i].provider # "local"
  /\ users[i].password # NoPassword
  /\ nextReset = 1

(* C2, as the specification states it: once OAuth resolution has taken over
   an unverified local account, every later password login for its email
   fails with the wrong-provider error. *)
C2_LoginRefusedEverAfter ==
  [][\A i \in DOMAIN users, pw \in Passwords :
       TakenOver(i) =>
         login(users', nextId', nextReset', jwtSecret', now',
               users[i].email, pw).out = WrongProvider(users[i].provider)]_vars

(* What either OAuth resolution leaves of the unverified local account i *)
Migrated(i, pr) ==
  /\ resp'.out = OK
  /\ resp'.uid = i
  /\ users' = [users EXCEPT ![i].provider = pr,
                            ![i].providerId = <<pr, users[i].email>>,
                            ![i].isVerified = TRUE,
                            ![i].verificationToken = NoToken]
  /\ users[i].verificationToken # NoToken
       => Spent(users', nextId', users[i].verificationToken)

(* C2, as the code has it: OAuth resolution for the email of an unverified
   local account leaves exactly that record, verified, with the OAuth
   provider and providerId and no verification token; for as long as a record
   with an OAuth provider exists it keeps its provider and email and every
   password login for its email fails with the wrong-provider error;
   verifyEmail with a token no longer stored fails, and such a token is never
   stored again. *)
C2_LoginRefusedWhileRecordExists ==
  /\ [][\A i \in DOMAIN users, pr \in OAuthProviders :
          (/\ users[i].provider = "local"
           /\ ~users[i].isVerified
           /\ resp'.op = "oauthLogin"
           /\ OAuthLogin(pr, users[i].email, DefaultName))
          => Migrated(i, pr)]_vars
  /\ [][\A i \in DOMAIN users :
          (/\ users[i].provider = "local"
           /\ ~users[i].isVerified
           /\ resp'.op = "googleCallback"
           /\ GoogleCallback(users[i].email, DefaultName))
          => Migrated(i, "google")]_vars
  /\ [][\A i \in DOMAIN users \cap DOMAIN users' :
          users[i].provider # "local"
          => (/\ users'[i].provider = users[i].provider
              /\ users'[i].email = users[i].email)]_vars
  /\ [][\A i \in DOMAIN users, pw \in Passwords :
          (/\ users[i].provider # "local"
           /\ resp'.op = "login"
           /\ Login(users[i].email, pw))
          => (/\ resp'.out = WrongProvider(users[i].provider)
              /\ resp'.token = NoJwt)]_vars
  /\ [][\A t \in Ids :
          (Spent(users, nextId, t) /\ resp'.op = "verifyEmail" /\ VerifyEmail(t))
          => resp'.out = InvalidVerificationToken]_vars
  /\ [][\A t \in Ids :
          Spent(users, nextId, t)
          => \A i \in DOMAIN users' : users'[i].verificationToken # t]_vars

(* An account taken over by Google was refused a password login *)
C2_Witness ==
  /\ resp.op = "login"
  /\ resp.out = WrongProvider("google")
  /\ \E i \in DOMAIN users : TakenOver(i) /\ users[i].provider = "google"

----------------------------------------------------------------------------
(* A reset token that was handed out and is stored on no document *)
Used(us, nr, t) ==
  t \in 1..(nr - 1) /\ \A i \in DOMAIN us : us[i].resetPasswordToken # t

(* C3: resetPassword succeeds exactly when a record stores the presented
   token with an expiry later than now, and otherwise fails with the
   invalid-or-expired error and changes nothing; requestPasswordReset stores
   a token that no record holds, expiring one hour after the request; a
   successful reset clears token and expiry; a token no longer stored is
   never stored again.  So a token fails once an hour has passed since it was
   requested, and on every use after a successful reset. *)
C3_ResetTokenValidForOneHourOnce ==
  /\ [][\A t \in ResetTokens, p \in Passwords :
          (resp'.op = "resetPassword" /\ ResetPassword(t, p))
          => IF \E i \in DOMAIN users :
                   /\ users[i].resetPasswordToken = t
                   /\ users[i].resetPasswordExpires > now
               THEN /\ resp'.out = OK
                    /\ users[resp'.uid].resetPasswordToken = t
                    /\ users'[resp'.uid].resetPasswordToken = NoToken
                    /\ users'[resp'.uid].resetPasswordExpires = NoDate
                    /\ Used(users', nextReset', t)
               ELSE /\ resp'.out = InvalidOrExpired
                    /\ users' = users]_vars
  /\ [][\A e \in Emails :
          (/\ resp'.op = "requestPasswordReset"
           /\ RequestPasswordReset(e)
           /\ resp'.out = OK)
          => (/\ users[resp'.uid].email = e
              /\ users'[resp'.uid].resetPasswordToken = nextReset
              /\ \A i \in DOMAIN users :
                    users[i].resetPasswordToken # nextReset
              /\ users'[resp'.uid].resetPasswordExpires
                    = now + 60 * 60 * 1000)]_vars
  /\ [][\A t \in ResetTokens :
          Used(users, nextReset, t) => Used(users', nextReset', t)]_vars
  /\ [][\A i \in DOMAIN users \cap DOMAIN users' :
          (/\ users[i].resetPasswordToken # NoToken
           /\ users'[i].resetPasswordToken = users[i].resetPasswordToken)
          => users'[i].resetPasswordExpires = users[i].resetPasswordExpires]_vars

(* A token presented an hour after it was requested was refused *)
C3_Witness ==
  /\ resp.op = "resetPassword"
  /\ resp.out = InvalidOrExpired
  /\ \E i \in DOMAIN users :
        /\ users[i].resetPasswordToken # NoToken
        /\ users[i].resetPasswordExpires = now

----------------------------------------------------------------------------
(* requestPasswordReset for the email of record i, resetPassword with the
   token it stored d milliseconds later, then login with password q *)
AfterReset(i, p, d) ==
  LET r1 == requestPasswordReset(users, nextId, nextReset, now,
                                 users[i].email)
  IN  resetPassword(r1.users, r1.nextId, r1.nextReset, now + d,
                    r1.users[i].resetPasswordToken, p)

LoginAfterReset(i, p, d, q) ==
  LET r2 == AfterReset(i, p, d)
  IN  login(r2.users, r2.nextId, r2.nextReset, jwtSecret, now + d,
            users[i].email, q).out

WithinTheHour == {0, TickShort, 60 * 60 * 1000 - 1}

(* C4, as the specification states it: for every existing user,
   requestPasswordReset followed within the hour by resetPassword with the
   issued token and password p succeeds, and login with p succeeds
   afterwards. *)
C4_LoginSucceedsAfterReset ==
  \A i \in DOMAIN users, p \in Passwords, d \in WithinTheHour :
    /\ AfterReset(i, p, d).out = OK
    /\ LoginAfterReset(i, p, d, p) = OK

(* C4, as the code has it: for every existing user, requestPasswordReset
   followed within the hour by resetPassword with the issued token and
   password p succeeds on that user's record; afterwards login with p
   succeeds when the account is local and verified, fails with the
   not-verified error when it is local and unverified, and with the
   wrong-provider error when it is an OAuth account; login with any password
   other than p fails.  The ResetPassword handler stores a hash that p, and
   no other password, compares equal to. *)
C4_LoginAfterResetNeedsVerifiedLocal ==
  /\ [](\A i \in DOMAIN users, p \in Passwords, d \in WithinTheHour :
         /\ AfterReset(i, p, d).out = OK
         /\ AfterReset(i, p, d).uid = i
         /\ LoginAfterReset(i, p, d, p) =
              IF users[i].provider # "local"
                THEN WrongProvider(users[i].provider)
              ELSE IF ~users[i].isVerified THEN NotVerified
              ELSE OK
         /\ \A q \in Passwords \ {p} : LoginAfterReset(i, p, d, q) # OK)
  /\ [][\A t \in ResetTokens, p \in Passwords :
          (/\ resp'.op = "resetPassword"
           /\ ResetPassword(t, p)
           /\ resp'.out = OK)
          => \A q \in Passwords :
               Compare(q, users'[resp'.uid].password) <=> (q = p)]_vars

(* The seeded account logged in with a password that only a reset can have
   given it *)
C4_Witness ==
  /\ resp.op = "login"
  /\ resp.out = OK
  /\ resp.uid = 1
  /\ users[1].password # SeedAdmin.password
  /\ Used(users, nextReset, 1)

----------------------------------------------------------------------------
(* C5, as the specification states it: a registration that creates no record
   because the email is held is answered 400 'Email already in use', also
   when two registrations for the same new email run concurrently. *)
C5_DuplicateRegistrationIsConflict ==
  (resp.op = "register" /\ resp.uid = NoId)
  => (resp.status = 400 /\ resp.body = EmailInUse)

(* C6: no two user records share an email. *)
C6_NoDuplicateEmail ==
  \A i \in DOMAIN users, j \in DOMAIN users :
    users[i].email = users[j].email => i = j

(* The unique index turned down the save of a request that had found the
   email free *)
C6_Witness ==
  /\ resp.out = DuplicateKey
  /\ \E i \in DOMAIN users : i > 1

----------------------------------------------------------------------------
(* oauthLogin for (provider, email), and the same call again on what the
   first one left *)
Once(pr, e) ==
  oauthLogin(users, nextId, nextReset, jwtSecret, now,
             Profile(pr, e, DefaultName), pr)

Twice(pr, e) ==
  LET r1 == Once(pr, e)
  IN  oauthLogin(r1.users, r1.nextId, r1.nextReset, jwtSecret, now,
                 Profile(pr, e, DefaultName), pr)

(* The same for the verify callback of the Google strategy *)
GoogleOnce(e) ==
  googleVerify(users, nextId, nextReset, Profile("google", e, DefaultName))

GoogleTwice(e) ==
  LET r1 == GoogleOnce(e)
  IN  googleVerify(r1.users, r1.nextId, r1.nextReset,
                   Profile("google", e, DefaultName))

(* The second call resolves to the user of the first and writes nothing, and
   at most one record was created *)
Idempotent(r1, r2) ==
  /\ r2.out = OK
  /\ r2.uid = r1.uid
  /\ r2.users = r1.users
  /\ r2.nextId = r1.nextId
  /\ Cardinality(DOMAIN r2.users) <= Cardinality(DOMAIN users) + 1

(* C7, as the specification states it: in any state of the store, OAuth
   resolution called twice in sequence with the same provider and email
   succeeds both times with the same user id, creates at most one record, and
   the second call leaves the store unchanged. *)
C7_ResolutionSucceedsTwice ==
  \A pr \in OAuthProviders, e \in Emails :
    Once(pr, e).out = OK /\ Idempotent(Once(pr, e), Twice(pr, e))

(* C7, as the code has it: whenever the first of two OAuth resolutions in
   sequence with the same provider and email succeeds, the second succeeds
   with the same user id and leaves the store unchanged, and at most one
   record was created; when the first fails it is with the provider-conflict
   error, the store is unchanged and the second fails alike.  A handler
   answering right after a successful resolution for the same provider and
   email answers for the same user and writes nothing. *)
C7_ResolutionIdempotentOnceSucceeded ==
  /\ [](\A pr \in OAuthProviders, e \in Emails :
         IF Once(pr, e).out = OK
           THEN Idempotent(Once(pr, e), Twice(pr, e))
           ELSE /\ Once(pr, e).out[1] = "You already have an account with"
                /\ Once(pr, e).users = users
                /\ Twice(pr, e).out = Once(pr, e).out)
  /\ [](\A e \in Emails :
         IF GoogleOnce(e).out = OK
           THEN Idempotent(GoogleOnce(e), GoogleTwice(e))
           ELSE /\ GoogleOnce(e).out[1] = "You already have an account with"
                /\ GoogleOnce(e).users = users
                /\ GoogleTwice(e).out = GoogleOnce(e).out)
  /\ [][\A pr \in OAuthProviders, e \in Emails :
          (/\ resp.op = "oauthLogin"
           /\ resp.out = OK
           /\ resp.uid \in DOMAIN users
           /\ users[resp.uid].email = e
           /\ users[resp.uid].provider = pr
           /\ OAuthLogin(pr, e, DefaultName))
          => (/\ resp'.out = OK
              /\ resp'.uid = resp.uid
              /\ users' = users
              /\ nextId' = nextId)]_vars

(* A resolution has created or taken over a record, and the same call again
   resolves to that record *)
C7_Witness ==
  /\ resp.op = "oauthLogin"
  /\ resp.out = OK
  /\ resp.uid \in DOMAIN users
  /\ resp.uid > 1
  /\ Once(users[resp.uid].provider, users[resp.uid].email).uid = resp.uid

----------------------------------------------------------------------------
(* The existing record i stands in the way of a resolution by provider pr *)
Conflicting(i, pr) ==
  /\ users[i].provider # pr
  /\ ~(users[i].provider = "local" /\ ~users[i].isVerified)

(* The request was refused, naming the provider of record i, and nothing was
   written or issued *)
Refused(i) ==
  /\ resp'.out = ProviderConflict(users[i].provider)
  /\ resp'.uid = NoId
  /\ resp'.token = NoJwt
  /\ users' = users
  /\ nextId' = nextId
  /\ issued' = issued

(* C8: OAuth resolution for the email of a record whose provider differs
   from the requested one, and which is not an unverified local account,
   fails with the provider-conflict error naming the existing provider,
   issues no token and leaves the store unchanged. *)
C8_ProviderConflictRefused ==
  /\ [][\A i \in DOMAIN users, pr \in OAuthProviders :
          (Conflicting(i, pr) /\ OAuthLogin(pr, users[i].email, DefaultName))
          => Refused(i)]_vars
  /\ [][\A i \in DOMAIN users :
          (Conflicting(i, "google")
             /\ GoogleCallback(users[i].email, DefaultName))
          => Refused(i)]_vars

(* A resolution was refused for the email of a verified local account *)
C8_Witness ==
  /\ resp.op \in {"oauthLogin", "googleCallback"}
  /\ resp.out = ProviderConflict("local")
  /\ resp.token = NoJwt
  /\ \E i \in DOMAIN users :
        users[i].provider = "local" /\ users[i].isVerified

----------------------------------------------------------------------------
(* The requests the gate must turn away *)
Missing(h) == h.scheme # "Bearer"

Expired(h) ==
  /\ h.scheme = "Bearer"
  /\ h.token \in issued
  /\ Seconds(now) >= h.token.claims.exp

Forged(h) ==
  /\ h.scheme = "Bearer"
  /\ h.token \notin issued
  /\ h.token = NoJwt \/ \E tok \in issued : h.token \in Tampered(tok)

(* What the client sees of the gate's answer *)
Seen(gate) == [next |-> gate.next, status |-> gate.status, body |-> gate.body]

(* C9: a request with no Authorization header, a header that is not a Bearer
   header, an expired token, or a tampered or malformed token is answered 401
   by the gate and its handler is not run; an expired and a tampered token
   get the same answer. *)
C9_GateRejectsUniformly ==
  /\ [][\A h \in Headers :
          ((Missing(h) \/ Expired(h) \/ Forged(h)) /\ GetCurrentUser(h))
          => (/\ resp'.op = "auth"
              /\ resp'.status = 401
              /\ resp'.out = NoService
              /\ resp'.token = NoJwt
              /\ users' = users)]_vars
  /\ [](\A h \in Headers :
         (Missing(h) \/ Expired(h) \/ Forged(h))
         => (/\ ~auth(users, jwtSecret, now, h).next
             /\ auth(users, jwtSecret, now, h).status = 401))
  /\ [](\A h1 \in Headers, h2 \in Headers :
         (Expired(h1) /\ Forged(h2))
         => Seen(auth(users, jwtSecret, now, h1))
              = Seen(auth(users, jwtSecret, now, h2)))

(* The gate answered 401 while the client held a token that has expired *)
C9_Witness ==
  /\ resp.op = "auth"
  /\ resp.status = 401
  /\ resp.body = AuthFailed
  /\ resp.uid = NoId
  /\ \E tok \in issued :
        /\ Seconds(now) >= tok.claims.exp
        /\ tok.claims.userId \in DOMAIN users

----------------------------------------------------------------------------
(* The ids the store has handed out to records that no longer exist *)
Deleted(us, nid) == (1..(nid - 1)) \ DOMAIN us

(* The instants up to now at which a token can have been signed *)
IssueTimes == {k * TickShort : k \in 0..(now \div TickShort)}

(* The tokens login, oauthLogin and googleCallback can have issued to user i *)
IssuedTo(i) ==
  {JwtSign([userId |-> i, email |-> e, role |-> r, isAdmin |-> a],
           ServiceSecret(jwtSecret), t) :
     e \in Emails, r \in {"user", "admin"}, a \in BOOLEAN, t \in IssueTimes}
  \cup {JwtSign([userId |-> i], CallbackSecret(jwtSecret), t) : t \in IssueTimes}

(* C10: once a user is deleted, by deleteAccount or by adminDeleteUser, the
   record stays gone and the gate answers 401 to every token issued to that
   user, and does not run the handler. *)
C10_DeletedUsersTokensRejected ==
  /\ [](\A i \in Deleted(users, nextId) :
         \A tok \in IssuedTo(i) \cup {x \in issued : x.claims.userId = i} :
           /\ ~auth(users, jwtSecret, now, Bearer(tok)).next
           /\ auth(users, jwtSecret, now, Bearer(tok)).status = 401)
  /\ [][\A h \in Held :
          (h.token.claims.userId \in Deleted(users, nextId)
             /\ GetCurrentUser(h))
          => (/\ resp'.op = "auth"
              /\ resp'.status = 401
              /\ resp'.body = AuthFailed
              /\ users' = users)]_vars
  /\ [][\A h \in Held, id \in Ids :
          ((DeleteAccount(h) \/ AdminDeleteUser(h, id)) /\ resp'.out = OK)
          => resp'.uid \in Deleted(users', nextId')]_vars
  /\ [][Deleted(users, nextId) \subseteq Deleted(users', nextId')]_vars

(* The gate turned away a token, valid but for its user being deleted *)
C10_Witness ==
  /\ resp.op = "auth"
  /\ resp.status = 401
  /\ resp.uid \in Deleted(users, nextId)
  /\ \E tok \in issued :
        /\ tok.claims.userId = resp.uid
        /\ JwtVerify(tok, ServiceSecret(jwtSecret), now) = OK

----------------------------------------------------------------------------
(* A token for user i as login signs it, carrying the claims (r, a) *)
TokenClaiming(i, r, a) ==
  JwtSign([userId |-> i, email |-> users[i].email, role |-> r, isAdmin |-> a],
          ServiceSecret(jwtSecret), now)

(* C11: the admin gate lets a request through exactly when the record auth
   fetched for it has isAdmin = TRUE, and answers 403 otherwise, whatever the
   role and isAdmin claims of the token and whatever the role of the record. *)
C11_AdminGateReadsLiveRecord ==
  /\ [](\A i \in DOMAIN users, r \in {"user", "admin"}, a \in BOOLEAN :
         LET gate == auth(users, jwtSecret, now, Bearer(TokenClaiming(i, r, a)))
         IN  /\ gate.next
             /\ gate.user = i
             /\ adminOnly(users, gate).next <=> users[i].isAdmin
             /\ ~users[i].isAdmin => adminOnly(users, gate).status = 403)
  /\ [][\A h \in Held :
          (auth(users, jwtSecret, now, h).next /\ GetAllUsers(h))
          => IF users[h.token.claims.userId].isAdmin
               THEN resp'.op = "getAllUsers" /\ resp'.status = 200
               ELSE /\ resp'.op = "adminOnly"
                    /\ resp'.status = 403
                    /\ resp'.body = AdminRequired
                    /\ resp'.out = NoService]_vars

(* An administrator demoted after logging in was answered 403 under the
   token that still claims isAdmin *)
C11_Witness ==
  /\ resp.op = "adminOnly"
  /\ resp.status = 403
  /\ \E tok \in issued :
        /\ tok.claims.userId = resp.uid
        /\ tok.claims.isAdmin
        /\ ~users[resp.uid].isAdmin

----------------------------------------------------------------------------
(* The caller of a request the gate let through *)
Caller(h) == auth(users, jwtSecret, now, h).user

(* Caller c may change testimonial tid: its author, or an administrator *)
MayChange(c, tid) == users[c].isAdmin \/ testimonials[tid].user = c

(* C12: updateTestimonial and deleteTestimonial answer 404 for an id that
   does not exist; for an existing testimonial they answer 403 and leave the
   collection as it was when the caller is neither the author nor an
   administrator, and succeed when the caller is the author or an
   administrator. *)
C12_AuthorOrAdminMayChange ==
  [][\A h \in Held, tid \in TestimonialIds :
       auth(users, jwtSecret, now, h).next
       => /\ DeleteTestimonial(h, tid)
             => IF tid \notin DOMAIN testimonials THEN resp'.status = 404
                ELSE IF MayChange(Caller(h), tid)
                  THEN resp'.status = 200 /\ tid \notin DOMAIN testimonials'
                ELSE resp'.status = 403 /\ testimonials' = testimonials
          /\ \A r \in Ratings :
               (~Falsy(r) /\ ~ratingOutOfRange(r)
                /\ UpdateTestimonial(h, tid, DefaultName, "c1", r, Unset))
               => IF tid \notin DOMAIN testimonials THEN resp'.status = 404
                  ELSE IF MayChange(Caller(h), tid)
                    THEN resp'.status = 200 /\ testimonials'[tid].rating = r
                  ELSE resp'.status = 403 /\ testimonials' = testimonials]_vars

(* C13: isApproved of a testimonial changes only in a request of an
   administrator (an update or a moderation); an update by a caller who is
   not an administrator never changes it; and an administrator's update
   that carries isApproved sets it to the value carried. *)
C13_ApprovalSetOnlyAndFreelyByAdmin ==
  [][/\ \A tid \in DOMAIN testimonials \cap DOMAIN testimonials' :
          testimonials'[tid].isApproved # testimonials[tid].isApproved
          => /\ resp'.op \in {"updateTestimonial", "moderateTestimonial"}
             /\ resp'.uid \in DOMAIN users
             /\ users[resp'.uid].isAdmin
     /\ \A h \in Held, tid \in DOMAIN testimonials, a \in {"true", "false"} :
          (/\ auth(users, jwtSecret, now, h).next
           /\ users[Caller(h)].isAdmin
           /\ UpdateTestimonial(h, tid, DefaultName, "c1",
                                testimonials[tid].rating, a))
          => /\ resp'.status = 200
             /\ testimonials'[tid].isApproved = (a = "true")]_vars

(* The fields of a testimonial other than isApproved and the updatedAt stamp
   that save() maintains *)
Copy(doc) == [f \in {"user", "name", "content", "rating", "createdAt"} |-> doc[f]]

(* C14: a testimonial is created with isApproved = FALSE whatever isApproved
   the creation input carries, and a moderation by an administrator sets
   isApproved to exactly the boolean requested, in either direction and
   whatever it was before, changing no other field of that testimonial and
   no other testimonial (save() moves the updatedAt stamp, never back). *)
C14_CreatedUnapprovedThenToggled ==
  /\ [](\A i \in DOMAIN users, a \in Flags, r \in {Stars(1), Stars(5)} :
          LET R == createTestimonial(testimonials, nextTid, ObjectId(i),
                     TestimonialInput(DefaultName, "c1", r, a), now)
          IN  R.out = OK /\ ~R.testimonials[R.tid].isApproved)
  /\ [][nextTid' # nextTid
        => /\ resp'.op = "createTestimonial"
           /\ resp'.status = 201
           /\ DOMAIN testimonials' = DOMAIN testimonials \cup {nextTid}
           /\ ~testimonials'[nextTid].isApproved]_vars
  /\ [][\A h \in Held, tid \in DOMAIN testimonials, a \in {"true", "false"} :
          (/\ auth(users, jwtSecret, now, h).next
           /\ users[Caller(h)].isAdmin
           /\ ModerateTestimonial(h, tid, a))
          => /\ resp'.status = 200
             /\ DOMAIN testimonials' = DOMAIN testimonials
             /\ testimonials'[tid].isApproved = (a = "true")
             /\ Copy(testimonials'[tid]) = Copy(testimonials[tid])
             /\ testimonials'[tid].updatedAt >= testimonials[tid].updatedAt
             /\ \A o \in DOMAIN testimonials \ {tid} :
                  testimonials'[o] = testimonials[o]]_vars

(* A testimonial that was approved some time after its creation has just
   been moved back to unapproved *)
C14_Witness ==
  /\ resp.op = "moderateTestimonial"
  /\ resp.status = 200
  /\ \E tid \in DOMAIN testimonials :
       /\ ~testimonials[tid].isApproved
       /\ testimonials[tid].updatedAt > testimonials[tid].createdAt

(* A rating that is a whole number of stars *)
IsInteger(r) == r % 2 = 0

InRange(r) == MinRating <= r /\ r <= MaxRating

(* C15 as stated: every persisted testimonial has an integer rating between
   1 and 5. *)
C15_RatingIntegerInRange ==
  \A tid \in DOMAIN testimonials :
    IsInteger(testimonials[tid].rating) /\ InRange(testimonials[tid].rating)

(* C15: every persisted testimonial has a rating r with 1 <= r <= 5, whole
   or not; a create or update request whose rating is 0 or 6 is answered
   400 before the service is called and changes nothing;
   ratings 1 and 5 are accepted and stored. *)
C15_RatingInRange ==
  /\ [](\A tid \in DOMAIN testimonials : InRange(testimonials[tid].rating))
  /\ [][\A h \in Held, r \in {Stars(0), Stars(6)} :
          auth(users, jwtSecret, now, h).next
          => /\ CreateTestimonial(h, DefaultName, "c1", r, Unset)
                => /\ resp'.status = 400
                   /\ resp'.out = NoService
                   /\ testimonials' = testimonials
             /\ \A tid \in TestimonialIds :
                  UpdateTestimonial(h, tid, DefaultName, "c1", r, Unset)
                  => /\ resp'.status = 400
                     /\ resp'.out = NoService
                     /\ testimonials' = testimonials]_vars
  /\ [][\A h \in Held, r \in {MinRating, MaxRating} :
          auth(users, jwtSecret, now, h).next
          => /\ CreateTestimonial(h, DefaultName, "c1", r, Unset)
                => /\ resp'.status = 201
                   /\ testimonials'[nextTid].rating = r
             /\ \A tid \in DOMAIN testimonials :
                  (/\ users[Caller(h)].isAdmin
                   /\ UpdateTestimonial(h, tid, DefaultName, "c1", r, Unset))
                  => /\ resp'.status = 200
                     /\ testimonials'[tid].rating = r]_vars

(* A rating of 6 was just refused while a testimonial rated 4.5 and one
   rated 5 are stored *)
C15_Witness ==
  /\ resp.status = 400
  /\ resp.body = RatingOutOfRange
  /\ \E tid \in DOMAIN testimonials : testimonials[tid].rating = MaxRating
  /\ \E tid \in DOMAIN testimonials : ~IsInteger(testimonials[tid].rating)

----------------------------------------------------------------------------
(* The paths of a user record that must stay inside the service *)
Secrets == {"password", "verificationToken", "resetPasswordToken"}

(* C16: no response of register, login, the admin update, the admin user
   listing or current-user carries a user's password hash,
   verificationToken or resetPasswordToken. *)
C16_NoSecretInPayload == resp.payload \cap Secrets = {}

(* C17: a reset request that names an email is answered with the same
   status and body whether the email belongs to a user or to none, and
   whether the service returned or threw: nothing in the response depends
   on the user store. *)
C17_ResetRequestAnswersAlike ==
  [][\A e \in Emails :
       (resp'.op = "requestPasswordReset" /\ RequestPasswordReset(e))
       => /\ resp'.status = 200
          /\ resp'.body = ResetRequested
          /\ resp'.token = NoJwt
          /\ resp'.payload = {}]_vars

(* A request for an email of no user was answered with the generic success *)
C17_Witness ==
  /\ resp.op = "requestPasswordReset"
  /\ resp.out = UserNotFound
  /\ resp.status = 200
  /\ resp.body = ResetRequested

----------------------------------------------------------------------------
PasswordAlreadySet == <<"User already has a password">>

(* C18: setPasswordForOAuthUser fails with "User not found" when the user
   does not exist and with "User already has a password" when the record
   has a password hash, leaving the store as it was in both cases; it
   succeeds only for a record without a hash, which then has one, and no
   request replaces or removes a hash already there: it succeeds at most
   once per user. *)
C18_PasswordSetAtMostOnce ==
  /\ [](\A id \in Ids, p \in Passwords :
          LET R == setPasswordForOAuthUser(users, nextId, nextReset, id, p)
          IN  IF id \notin DOMAIN users
                THEN R.out = UserNotFound /\ R.users = users
              ELSE IF users[id].password # NoPassword
                THEN R.out = PasswordAlreadySet /\ R.users = users
              ELSE /\ R.out = OK
                   /\ R.users = [users EXCEPT ![id].password = Hash(p)])
  /\ [][\A h \in Held, p \in Passwords :
          (/\ resp'.op = "setPasswordForOAuthUser"
           /\ auth(users, jwtSecret, now, h).next
           /\ SetPassword(h, p))
          => IF users[Caller(h)].password # NoPassword
               THEN /\ resp'.status = 400
                    /\ resp'.out = PasswordAlreadySet
                    /\ users' = users
               ELSE /\ resp'.status = 200
                    /\ users'[Caller(h)].password = Hash(p)]_vars
  /\ [][\A i \in DOMAIN users \cap DOMAIN users' :
          users[i].password # NoPassword
          => users'[i].password = users[i].password]_vars

(* A second request of a user who had set a password was refused *)
C18_Witness ==
  /\ resp.op = "setPasswordForOAuthUser"
  /\ resp.out = PasswordAlreadySet
  /\ \E i \in DOMAIN users :
       /\ users[i].provider # "local"
       /\ users[i].password # NoPassword
       /\ \E tok \in issued : tok.claims.userId = i

(* C19: once setPasswordForOAuthUser has stored the hash of p on an
   OAuth-only account, a password login with that account's email and p
   succeeds and issues a session token. *)
C19_LoginAfterSetPassword ==
  [][\A i \in DOMAIN users, p \in Passwords :
       (/\ users[i].provider # "local"
        /\ users[i].password = Hash(p)
        /\ Login(users[i].email, p))
       => /\ resp'.status = 200
          /\ resp'.out = OK
          /\ resp'.token # NoJwt]_vars

----------------------------------------------------------------------------
HasPassword(doc) == doc.password # NoPassword

(* C20: for every record exactly one of the two holds: it has a password
   hash, or its provider is not local. *)
C20_ExactlyOneOfPasswordAndProvider ==
  \A i \in DOMAIN users : HasPassword(users[i]) # (users[i].provider # "local")

(* C21: every record whose provider is local has a password hash, whatever
   register, resetPassword, changePassword, the admin update and the
   migration have done to the store. *)
C21_LocalRecordsHavePassword ==
  \A i \in DOMAIN users : users[i].provider = "local" => HasPassword(users[i])

(* A registered account still local after its password was reset *)
C21_Witness ==
  /\ resp.op = "resetPassword"
  /\ resp.out = OK
  /\ resp.uid # 1
  /\ users[resp.uid].provider = "local"
  /\ users[resp.uid].password = Hash("pw2")

----------------------------------------------------------------------------
(* The records a login with this email can find *)
Named(e) == {i \in DOMAIN users : users[i].email = e}

(* C22: login answers with the first check that fails, in this order: no
   record with the email -> "Invalid credentials"; provider not local ->
   the wrong-provider error naming the provider, whatever the password; no
   hash, or a hash of another password -> "Invalid credentials", verified or
   not; isVerified false -> the not-verified error; otherwise it returns the
   record and a token.  No login changes the store. *)
C22_LoginChecksInOrder ==
  /\ [](\A e \in Emails, p \in Passwords :
          LET R == login(users, nextId, nextReset, jwtSecret, now, e, p)
          IN  /\ R.users = users
              /\ Named(e) = {} => R.out = InvalidCredentials
              /\ \A i \in Named(e) :
                   IF users[i].provider # "local"
                     THEN R.out = WrongProvider(users[i].provider)
                   ELSE IF users[i].password # Hash(p)
                     THEN R.out = InvalidCredentials
                   ELSE IF ~users[i].isVerified
                     THEN R.out = NotVerified
                   ELSE R.out = OK /\ R.uid = i /\ R.token # NoJwt)
  /\ [][resp'.op = "login" => users' = users]_vars

(* A login was sent to its provider for a record that holds a password
   hash *)
C22_Witness ==
  /\ resp.op = "login"
  /\ \E i \in DOMAIN users :
       /\ users[i].provider # "local"
       /\ HasPassword(users[i])
       /\ resp.out = WrongProvider(users[i].provider)

----------------------------------------------------------------------------
(* C23: every session token issued, by password login, oauthLogin or the
   Google callback, carries the claims userId, email, role and isAdmin and
   expires one day after its issue, and the gate lets it through at any time
   before that while the user exists, with JWT_SECRET set or not. *)
C23_IssuedTokensCarryClaimsAndPass ==
  \A tok \in issued :
    /\ {"userId", "email", "role", "isAdmin"} \subseteq DOMAIN tok.claims
    /\ tok.claims.exp = tok.claims.iat + TokenTTLs
    /\ (tok.claims.userId \in DOMAIN users /\ Seconds(now) < tok.claims.exp)
       => auth(users, jwtSecret, now, Bearer(tok)).next

----------------------------------------------------------------------------
(* The instants, a day apart, at which a session token can have been signed *)
SessionTimes == {k * TickLong : k \in 0..(now \div TickLong)}

(* The tokens the services sign for user i, whatever the record said then *)
ServiceTokens(i) ==
  {JwtSign([userId |-> i, email |-> e, role |-> r, isAdmin |-> a],
           ServiceSecret(jwtSecret), t) :
     e \in Emails, r \in {"user", "admin"}, a \in BOOLEAN, t \in SessionTimes}

(* Those and the tokens the OAuth callback signs for user i *)
SessionTokens(i) ==
  ServiceTokens(i)
    \cup {JwtSign([userId |-> i], CallbackSecret(jwtSecret), t) :
            t \in SessionTimes}

Accepted(us, env, t, tok) == auth(us, env, t, Bearer(tok)).next

(* C24: an untampered token is accepted by the gate for as long as it is
   unexpired and its user's record exists: the tokens the services sign pass
   in every state where the record exists, whatever logout, changePassword,
   resetPassword, provider migration or admin edits did to the record since,
   and no step that keeps the record and leaves the token unexpired turns an
   accepted token into a rejected one. *)
C24_SessionsAreIrrevocable ==
  /\ [](\A i \in DOMAIN users : \A tok \in ServiceTokens(i) :
         Seconds(now) < tok.claims.exp
           => Accepted(users, jwtSecret, now, tok))
  /\ [][\A i \in DOMAIN users \cap DOMAIN users' :
          \A tok \in SessionTokens(i) :
            (Accepted(users, jwtSecret, now, tok)
               /\ Seconds(now') < tok.claims.exp)
            => Accepted(users', jwtSecret', now', tok)]_vars

(* After a logout, a token signed for the seeded admin before the record was
   migrated to Google, demoted and unverified is still let through *)
C24_Witness ==
  /\ resp.op = "logout"
  /\ 1 \in DOMAIN users
  /\ users[1].provider = "google"
  /\ users[1].role = "user"
  /\ users[1].password # SeedAdmin.password
  /\ Accepted(users, jwtSecret, now,
              JwtSign([userId |-> 1, email |-> SeedEmail, role |-> "admin",
                       isAdmin |-> TRUE],
                      ServiceSecret(jwtSecret), 0))

----------------------------------------------------------------------------
UserHandlers ==
  {"register", "login", "verifyEmail", "requestPasswordReset",
   "resetPassword", "changePassword", "getUserById", "adminDeleteUser"}

(* C25: in every user controller handler a validation failure or a mapped
   domain error ends the handling of the request: a request whose validation
   failed gets 400 and leaves the store as it was, no service operation having
   run for it, and every request is answered by exactly one attempt to send a
   response. *)
C25_ErrorEndsHandling ==
  /\ [](resp.op \in UserHandlers => Len(resp.sent) = 1)
  /\ [][(resp'.op \in UserHandlers /\ resp'.invalid)
          => (resp'.status = 400 /\ users' = users)]_vars

----------------------------------------------------------------------------
(* C26: the admin gate honours both flags: a request by a user whose live
   record has role = "admin" is let through even when isAdmin is false, and a
   request by a user whose record has isAdmin = TRUE is let through even when
   role = "user". *)
C26_GateHonoursRoleAndIsAdmin ==
  \A i \in DOMAIN users, r \in {"user", "admin"}, a \in BOOLEAN :
    LET gate == auth(users, jwtSecret, now, Bearer(TokenClaiming(i, r, a)))
    IN  (users[i].role = "admin" \/ users[i].isAdmin)
          => adminOnly(users, gate).next

----------------------------------------------------------------------------
(* The paths updateProfile may write *)
ProfilePaths == {"name", "picture"}

(* Store vs differs from store us at most in the profile paths of record id *)
OnlyProfileOf(us, vs, id) ==
  /\ DOMAIN vs = DOMAIN us
  /\ \A i \in DOMAIN us :
       /\ i # id => vs[i] = us[i]
       /\ DOMAIN vs[i] = DOMAIN us[i]
       /\ \A f \in DOMAIN us[i] \ ProfilePaths : vs[i][f] = us[i][f]

(* C27: updateProfile(userId, data) changes at most the name and the picture
   of the target user: for every object it is handed, keys of other paths
   included, every other path of the record and every other record is as
   before, and for a userId that does not exist it fails and leaves the store
   as it was, with "User not found" whenever the name it was handed is not
   undefined. *)
C27_UpdateProfileFrame ==
  /\ [](\A id \in Ids, d \in ProfileData, omit \in BOOLEAN :
         LET R == updateProfile(users, nextId, nextReset, id, d, omit)
         IN  /\ OnlyProfileOf(users, R.users, id)
             /\ R.nextId = nextId
             /\ R.nextReset = nextReset
             /\ R.token = NoJwt
             /\ R.out # OK => R.users = users
             /\ id \notin DOMAIN users
                  => /\ R.out # OK
                     /\ d.name # Unset => R.out = UserNotFound)
  /\ [][resp'.op = "updateProfile"
          => /\ OnlyProfileOf(users, users', resp'.uid)
             /\ resp'.out # OK => users' = users]_vars

(* A profile update that named role, isAdmin, email and password changed the
   name of a record with a reset pending, and nothing else *)
C27_Witness ==
  /\ resp.op = "updateProfile"
  /\ resp.out = OK
  /\ users[resp.uid].name = "Bob"
  /\ users[resp.uid].role = "user"
  /\ users[resp.uid].email \in Emails
  /\ users[resp.uid].resetPasswordToken # NoToken

----------------------------------------------------------------------------
(* C28: setPasswordForOAuthUser is one-time under concurrency: of two calls
   for the same user that overlap, at most one succeeds, and a hash once
   stored is never overwritten by the operation. *)
C28_SetPasswordOnceConcurrently ==
  [][resp'.op = "setPasswordForOAuthUser"
       => /\ resp'.out = OK => users[resp'.uid].password = NoPassword
          /\ \A i \in DOMAIN users \cap DOMAIN users' :
               users[i].password # NoPassword
                 => users'[i].password = users[i].password]_vars

(* C29: the reset token is single-use under concurrency: of two resetPassword
   calls with the same valid token that overlap, at most one succeeds, the
   record holding the token when a call succeeds and the hash of that call
   afterwards. *)
C29_ResetTokenSingleUseConcurrently ==
  [][(resp'.op = "resetPassword" /\ resp'.out = OK)
       => /\ users[resp'.uid].resetPasswordToken # NoToken
          /\ users[resp'.uid].resetPasswordExpires > now]_vars

----------------------------------------------------------------------------
(* resetPassword would accept token t for user i now *)
WouldReset(i, t) ==
  LET R == resetPassword(users, nextId, nextReset, now, t, "pw1")
  IN  R.out = OK /\ R.uid = i

(* C30: each user has at most one reset token that resetPassword would
   accept: a requestPasswordReset that succeeds stores a fresh token and an
   expiry an hour ahead in place of the ones the record held, so that every
   token issued before is rejected for that user; and a record holds a
   resetPasswordToken exactly when it holds a resetPasswordExpires. *)
C30_OneAcceptableResetToken ==
  /\ [](\A i \in DOMAIN users :
         /\ Cardinality({t \in ResetTokens : WouldReset(i, t)}) <= 1
         /\ users[i].resetPasswordToken = NoToken
              <=> users[i].resetPasswordExpires = NoDate)
  /\ [][(now' = now /\ resp'.op = "requestPasswordReset"
            /\ resp'.out = OK)
          => /\ users'[resp'.uid].resetPasswordToken = nextReset
             /\ users'[resp'.uid].resetPasswordExpires = now + ResetTTLms
             /\ \A t \in 1..(nextReset - 1) :
                  resetPassword(users', nextId', nextReset', now', t,
                                "pw1").uid # resp'.uid]_vars

(* The only account asked for a second reset with the first still pending:
   it holds the second token, and the first is turned away *)
C30_Witness ==
  /\ resp.op = "requestPasswordReset"
  /\ resp.out = OK
  /\ DOMAIN users = {1}
  /\ users[1].resetPasswordToken = 2
  /\ users[1].resetPasswordExpires > now
  /\ users[1].password = SeedAdmin.password
  /\ WouldReset(1, 2)
  /\ ~WouldReset(1, 1)

----------------------------------------------------------------------------
(* No record of store us is an administrator by either flag *)
NoAdmin(us) == \A i \in DOMAIN us : us[i].role = "user" /\ ~us[i].isAdmin

(* A request passed the admin gate under one of the tokens held *)
PassedAdminGate ==
  \E h \in Held :
    /\ auth(users, jwtSecret, now, h).next
    /\ adminOnly(users, auth(users, jwtSecret, now, h)).next

(* C31: no privilege escalation: the role and isAdmin of a record change only
   in an adminUpdateUser of that record whose caller passed the admin gate,
   every record created has role "user" and isAdmin false, and from a store
   without an administrator no step reaches a store with one. *)
C31_NoPrivilegeEscalation ==
  /\ [][NoAdmin(users) => NoAdmin(users')]_vars
  /\ [][\A i \in DOMAIN users' :
          IF i \in DOMAIN users
            THEN (users'[i].role # users[i].role
                    \/ users'[i].isAdmin # users[i].isAdmin)
                 => (/\ resp'.op = "adminUpdateUser"
                     /\ resp'.uid = i
                     /\ PassedAdminGate)
            ELSE users'[i].role = "user" /\ ~users'[i].isAdmin]_vars

(* With no administrator left in a store of several records, a caller was
   turned away by the admin gate *)
C31_Witness ==
  /\ NoAdmin(users)
  /\ Cardinality(DOMAIN users) >= 2
  /\ resp.op = "adminOnly"
  /\ resp.status = 403
  /\ resp.uid \in DOMAIN users

----------------------------------------------------------------------------
(* What a resolution did to store us: refused, created a record, changed one
   (the migration), or changed nothing *)
Outcome(us, R) ==
  IF R.out # OK THEN "conflict"
  ELSE IF DOMAIN R.users # DOMAIN us THEN "create"
  ELSE IF R.users # us THEN "migrate"
  ELSE "no mutation"

(* C32: userService.oauthLogin, the verify callback of the Google strategy and
   handleGoogleCallback, with login or with registration intent, are
   equivalent: from the same store and the same Google profile they have the
   same outcome and leave the same store. *)
C32_OAuthResolutionsEquivalent ==
  \A e \in Emails, isRegistration \in BOOLEAN :
    LET profile == Profile("google", e, DefaultName)
        A == oauthLogin(users, nextId, nextReset, jwtSecret, now, profile,
                        "google")
        B == googleVerify(users, nextId, nextReset, profile)
        C == handleGoogleCallback(users, nextId, nextReset, jwtSecret, now,
                                  profile, isRegistration)
    IN  /\ Outcome(users, A) = Outcome(users, B)
        /\ A.users = B.users
        /\ Outcome(users, A) = Outcome(users, C)
        /\ A.users = C.users

(* Where the implementations part: oauthLogin, the verify callback of the
   Google strategy and handleGoogleCallback with registration intent have the
   same outcome and leave the same store; handleGoogleCallback with login
   intent differs in one case: where the others migrate an unverified local
   account it refuses and leaves the store unchanged. *)
OAuthResolutionsByIntent ==
  \A e \in Emails :
    LET profile == Profile("google", e, DefaultName)
        A == oauthLogin(users, nextId, nextReset, jwtSecret, now, profile,
                        "google")
        B == googleVerify(users, nextId, nextReset, profile)
        C == handleGoogleCallback(users, nextId, nextReset, jwtSecret, now,
                                  profile, TRUE)
        L == handleGoogleCallback(users, nextId, nextReset, jwtSecret, now,
                                  profile, FALSE)
        migrates == Outcome(users, A) = "migrate"
    IN  /\ Outcome(users, A) = Outcome(users, B)
        /\ A.users = B.users
        /\ Outcome(users, A) = Outcome(users, C)
        /\ A.users = C.users
        /\ Outcome(users, L) = IF migrates THEN "conflict" ELSE Outcome(users, A)
        /\ L.users = IF migrates THEN users ELSE A.users
        /\ migrates => L.out = PleaseSignInWith("local")

(* A login-intent callback refused for an account the others would migrate *)
C32_Witness ==
  /\ resp.op = "handleGoogleCallback"
  /\ resp.out = PleaseSignInWith("local")
  /\ \E id \in DOMAIN users :
       /\ Migratable(users[id])
       /\ Outcome(users, oauthLogin(users, nextId, nextReset, jwtSecret, now,
                    Profile("google", users[id].email, DefaultName), "google"))
            = "migrate"

----------------------------------------------------------------------------
(* The service alone: changePassword succeeds exactly when the user exists,
   has a stored hash and the current password matches it; a success changes
   the password hash of that user and nothing else, so that a reset token
   acceptable before is acceptable after; a failure leaves the store as it
   was. *)
ChangePasswordServiceFrame ==
  [][\A h \in Held :
       ChangePassword(h, "pw1", "pw2") =>
         LET gate == auth(users, jwtSecret, now, h)
             me == gate.user
         IN  IF /\ gate.next
                /\ me \in DOMAIN users
                /\ users[me].password # NoPassword
                /\ Compare("pw1", users[me].password)
               THEN /\ resp'.status = 200
                    /\ DOMAIN users' = DOMAIN users
                    /\ users'[me].password = Hash("pw2")
                    /\ \A id \in DOMAIN users : \A f \in DOMAIN users[id] :
                         (id # me \/ f # "password")
                            => users'[id][f] = users[id][f]
                    /\ \A id \in DOMAIN users, t \in ResetTokens :
                         WouldReset(id, t) => (WouldReset(id, t))'
               ELSE /\ resp'.status # 200
                    /\ users' = users]_vars

(* C33: a change-password request succeeds only when the user exists, has a
   stored hash and the current password matches it; a success changes the
   password hash of that user and nothing else (reset token and expiry,
   verification state, provider and role stay); every request that fails
   leaves the store as it was. *)
C33_ChangePasswordFrame ==
  [][\A h \in Held, c \in {"pw1", Blank}, n \in {"pw2", Blank} :
       HandleChangePassword(h, c, n) =>
         LET me == auth(users, jwtSecret, now, h).user IN
         /\ resp'.status = 200 =>
              /\ me \in DOMAIN users
              /\ users[me].password # NoPassword
              /\ Compare(c, users[me].password)
              /\ DOMAIN users' = DOMAIN users
              /\ users'[me].password = Hash(n)
              /\ \A id \in DOMAIN users : \A f \in DOMAIN users[id] :
                   (id # me \/ f # "password") => users'[id][f] = users[id][f]
         /\ resp'.status # 200 => users' = users]_vars

(* A change-password request answered 400 that replaced the password *)
C33_Witness ==
  /\ resp.op = "changePassword"
  /\ resp.status = 400
  /\ resp.invalid
  /\ \E id \in DOMAIN users : users[id].password = Hash(Blank)

----------------------------------------------------------------------------
(* C34: an update of a testimonial changes only the content fields the
   request supplies: a PUT by the author or by an administrator that carries
   some of name, content and rating (a rating in range) succeeds, and every
   field it does not carry, the author reference among them, keeps the value
   it had. *)
C34_UpdateKeepsUnsupplied ==
  [][\A h \in Held, tid \in DOMAIN testimonials, n \in {Unset, DefaultName},
        r \in Ratings, a \in {Unset, "true"} :
       (/\ auth(users, jwtSecret, now, h).next
        /\ MayChange(Caller(h), tid)
        /\ (r = NoRating \/ ~ratingOutOfRange(r))
        /\ UpdateTestimonial(h, tid, n, "c1", r, a))
       => /\ resp'.status = 200
          /\ testimonials'[tid].user = testimonials[tid].user
          /\ testimonials'[tid].isApproved = testimonials[tid].isApproved
          /\ n = Unset => testimonials'[tid].name = testimonials[tid].name
          /\ r = NoRating => testimonials'[tid].rating = testimonials[tid].rating
     ]_vars

(* An update that left out a required field and was answered 500 *)
C34_Witness ==
  /\ resp.op = "updateTestimonial"
  /\ resp.status = 500
  /\ resp.uid \in DOMAIN users
  /\ users[resp.uid].isAdmin
  /\ testimonials # <<>>

----------------------------------------------------------------------------
PublicReads == {"getAllTestimonials", "getTestimonialById"}

(* C35: no response to a testimonial request made without authentication
   (GET /, GET /approved, GET /:id) holds a testimonial that is not approved;
   such a testimonial is shown to its author only (GET /user/me) and to
   administrators. *)
C35_UnapprovedNotPublic ==
  [][/\ resp'.op \in PublicReads
        => \A tid \in resp'.shown : testimonials[tid].isApproved
     /\ resp'.op = "getUserTestimonials"
        => \A tid \in resp'.shown :
             testimonials[tid].isApproved \/ testimonials[tid].user = resp'.uid
     /\ resp'.op = "getAllTestimonialsAdmin" => users[resp'.uid].isAdmin]_vars

(* An unapproved testimonial in the response to GET /:id *)
C35_Witness ==
  /\ resp.op = "getTestimonialById"
  /\ resp.status = 200
  /\ \E tid \in resp.shown : ~testimonials[tid].isApproved

----------------------------------------------------------------------------
(* C36: the author reference of every testimonial points to a user record
   that exists, also after the account of the author was deleted by
   deleteAccount or by adminDeleteUser. *)
C36_AuthorExists ==
  \A tid \in DOMAIN testimonials : testimonials[tid].user \in DOMAIN users

(* An account deleted, a testimonial of it still stored *)
C36_Witness ==
  /\ resp.op \in {"deleteAccount", "adminDeleteUser"}
  /\ resp.status = 200
  /\ \E tid \in DOMAIN testimonials : testimonials[tid].user = resp.uid
  /\ resp.uid \notin DOMAIN users

----------------------------------------------------------------------------
(* C37: every record whose provider is google or github has isVerified = TRUE
   and a providerId; every record whose provider is local has no
   providerId. *)
C37_ProviderFields ==
  \A id \in DOMAIN users :
    IF users[id].provider = "local"
      THEN users[id].providerId = NoProviderId
      ELSE users[id].isVerified /\ users[id].providerId # NoProviderId

(* An administrator's update left the record of an OAuth account unverified *)
C37_Witness ==
  /\ resp.op = "adminUpdateUser"
  /\ resp.status = 200
  /\ resp.uid \in DOMAIN users
  /\ users[resp.uid].provider # "local"
  /\ ~users[resp.uid].isVerified

----------------------------------------------------------------------------
(* C38: auth does exactly one of two things with a request: it calls next(),
   req.user being the existing record the token names, or it sends 401 and
   does not call next(); never both and never neither.  A request it rejects
   does not reach the handler. *)
C38_AuthNextXorReject ==
  /\ [](\A h \in Headers :
          LET gate == auth(users, jwtSecret, now, h) IN
          /\ gate.next # (gate.status = 401)
          /\ gate.next =>
               /\ gate.status = 0
               /\ h.scheme = "Bearer"
               /\ JwtVerify(h.token, ServiceSecret(jwtSecret), now) = OK
               /\ gate.user = h.token.claims.userId
               /\ gate.user \in DOMAIN users)
  /\ [][\A h \in Headers :
          (GetCurrentUser(h) /\ now' = now) =>
            IF auth(users, jwtSecret, now, h).next
              THEN resp'.op = "getCurrentUser" /\ resp'.status = 200
              ELSE resp'.op = "auth" /\ resp'.status = 401]_vars

(* A request rejected though its token verifies: the user is gone *)
C38_Witness ==
  /\ resp.op = "auth"
  /\ resp.status = 401
  /\ resp.uid # NoId
  /\ \E h \in Headers :
       /\ h.scheme = "Bearer"
       /\ JwtVerify(h.token, ServiceSecret(jwtSecret), now) = OK
       /\ ~auth(users, jwtSecret, now, h).next

----------------------------------------------------------------------------
(* startServer() was called only after both connections emitted 'connected',
   and initialize() exits with code 1 and no other *)
StartAfterBothConnected ==
  /\ boot.phase = "started" =>
       \A c \in Connections : <<c, "connected">> \in boot.seen
  /\ boot.phase = "exited" <=> boot.exitCode = ExitFailure

(* A rejected promise ends initialize() with process.exit(1) *)
RejectionExits ==
  ("rejected" \in {boot.connectPrimary, boot.connectSecondary}
     /\ boot.phase = "awaiting")
    ~> boot.phase = "exited"

(* C39: initialize() calls startServer() only after both the primary and the
   secondary connection emitted 'connected', and it always ends: when a
   connection emits 'error' or never connects, it ends with process.exit(1)
   instead of waiting forever. *)
C39_StartupTerminates ==
  /\ []StartAfterBothConnected
  /\ RejectionExits
  /\ <>(boot.phase # "awaiting")

(* initialize() still waiting after the timer fired: the primary connection
   is up, the secondary has emitted nothing *)
C39_Witness ==
  /\ boot.phase = "awaiting"
  /\ boot.timer = "fired"
  /\ boot.connectPrimary = "resolved"
  /\ boot.connectSecondary = "pending"
  /\ boot.emitted["secondary"] = 0

====
